---- MODULE Spec2Model ----
(***************************************************************************)
(* Network graph renderer of the conference dashboard: the GEXF parser     *)
(* (utils/parseGexf.ts), the network loading of the data context           *)
(* (loadFromPublic), and the Community view (data selection and filters,   *)
(* layout choice, node drag, floating inspector windows).                  *)
(*                                                                         *)
(* JavaScript values are encoded as follows.  A number-valued slot holds a *)
(* tagged record: Num(v), NaN, NullV or Undef.  A string-valued attribute  *)
(* holds a string, or NoAttr when getAttribute returns null.               *)
(***************************************************************************)
EXTENDS Integers, Sequences, FiniteSets, TLC

VARIABLES
    doc,            \* parse harness: the document handed to parseGexf
    result,         \* parse harness: what parseGexf returned or threw
    ctx,            \* DataContext: the four networks and their sources
    load,           \* loadFromPublic: position, flags, what escaped
    mode,           \* Community: 'SOCIAL' | 'CITATION'
    citationType,   \* Community: 'PAPER' | 'AUTHOR'
    activeFilters,  \* Community: ActiveFilter[]
    windows,        \* Community: WindowState[]
    clientWidth,    \* Community: containerRef.current.clientWidth
    nextZIndex,     \* Community: z counter
    draggingId,     \* Community: id of the window being dragged, or NoAttr
    dragOffset,     \* Community: pointer offset captured at mouse-down
    openedUnder,    \* history: (mode, sub-mode) under which a window was created
    data,           \* Community: the memoised dataset handed to the D3 effect
    scene,          \* Community: what the D3 effect built and rendered
    searchTerm,     \* Community: the text of the search box
    hoverNode,      \* Community: id of the hovered node object, or NoAttr
    hoverLink,      \* Community: the hovered link object, or NoLink
    styles,         \* Community: opacity and stroke of the circles and lines
    last            \* history: the operation that produced this state

vars == <<doc, result, ctx, load, mode, citationType, activeFilters, windows, clientWidth,
          nextZIndex, draggingId, dragOffset, openedUnder, data, scene, last,
         searchTerm, hoverNode, hoverLink, styles>>

parseVars == <<doc, result>>
loadVars == <<ctx, load>>
viewVars == <<mode, citationType, activeFilters, data, scene>>
winVars == <<windows, nextZIndex, draggingId, dragOffset, openedUnder>>
hlVars == <<searchTerm, hoverNode, hoverLink, styles>>

-----------------------------------------------------------------------------
(* Value encoding *)

NoAttr == "<null>"
Num(v) == [t |-> "num", v |-> v]
NaN == [t |-> "NaN"]
NullV == [t |-> "null"]
Undef == [t |-> "undefined"]

\* typeof v === 'number'
IsNumberType(v) == v.t \in {"num", "NaN"}

\* a && ... on a string-or-null value
Truthy(s) == s # NoAttr /\ s # ""

\* a ?? b
Coalesce(a, b) == IF a = NoAttr THEN b ELSE a

\* parseFloat on the attribute texts the documents below carry
ParseFloat(s) ==
    CASE s = "0" -> Num(0)
      [] s = "1" -> Num(1)
      [] s = "2" -> Num(2)
      [] s = "5" -> Num(5)
      [] s = "10" -> Num(10)
      [] s = "40" -> Num(40)
      [] s = "15" -> Num(15)
      [] s = "16" -> Num(16)
      [] s = "255" -> Num(255)
      [] s = "300" -> Num(300)
      [] s = "-7" -> Num(0 - 7)
      [] OTHER -> NaN

\* the history record of an operation: its name, the node or window it acted on
\* and the pointer position it was given (for a mode or scope button: the
\* number of windows that were open, and 1 when the selection changed)
OpAt(name, i, x, y) == [op |-> name, i |-> i, x |-> x, y |-> y]
Op(name) == OpAt(name, 0, 0, 0)

SeqToSet(s) == {s[i] : i \in 1..Len(s)}

RECURSIVE SelectIdx(_, _, _)
\* the indices i of s, in order, for which keep[i] holds
SelectIdx(s, keep, i) ==
    IF i > Len(s) THEN <<>>
    ELSE (IF keep[i] THEN <<i>> ELSE <<>>) \o SelectIdx(s, keep, i + 1)

-----------------------------------------------------------------------------
(* utils/parseGexf.ts *)

\* a <viz:position> element, or NoPos when getVizChild finds none
NoPos == [present |-> FALSE, x |-> NoAttr, y |-> NoAttr]
Pos(x, y) == [present |-> TRUE, x |-> x, y |-> y]

\* MapSet leaving the value of an existing key as it is
MapSetKeepFirst(m, node) ==
    IF \E i \in 1..Len(m) : m[i].id = node.id THEN m ELSE Append(m, node)

\* Map.set: a new key is appended, an existing key keeps its place
MapSet(m, node) ==
    IF \E i \in 1..Len(m) : m[i].id = node.id
    THEN [i \in 1..Len(m) |-> IF m[i].id = node.id THEN node ELSE m[i]]
    ELSE Append(m, node)

MapHas(m, id) == \E i \in 1..Len(m) : m[i].id = id
MapIndex(m, id) == CHOOSE i \in 1..Len(m) : m[i].id = id

\* a <viz:color> element: the hex attribute as its characters, r, g, b as
\* attribute strings; NoColor when getVizChild finds none
NoHex == [present |-> FALSE, chars |-> <<>>]
NoColor == [present |-> FALSE, hex |-> NoHex, r |-> NoAttr, g |-> NoAttr, b |-> NoAttr]

HexDigit(v) ==
    CASE v = 0 -> "0" [] v = 1 -> "1" [] v = 2 -> "2" [] v = 3 -> "3"
      [] v = 4 -> "4" [] v = 5 -> "5" [] v = 6 -> "6" [] v = 7 -> "7"
      [] v = 8 -> "8" [] v = 9 -> "9" [] v = 10 -> "a" [] v = 11 -> "b"
      [] v = 12 -> "c" [] v = 13 -> "d" [] v = 14 -> "e" [] OTHER -> "f"

\* x.toString(16).padStart(2, '0') for 0 <= x <= 255
ToHex2(x) == HexDigit(x \div 16) \o HexDigit(x % 16)

\* Math.max(0, Math.min(255, Math.round(v))); the channels here are integers
Channel(v) == IF v < 0 THEN 0 ELSE IF v > 255 THEN 255 ELSE v

\* RgbToHex composing the channels in the order b, g, r
RgbToHexSwapped(r, g, b) == "#" \o ToHex2(Channel(b)) \o ToHex2(Channel(g)) \o ToHex2(Channel(r))

\* lines 11-16
RgbToHex(r, g, b) == "#" \o ToHex2(Channel(r)) \o ToHex2(Channel(g)) \o ToHex2(Channel(b))

\* the string made of the characters cs
RECURSIVE Join(_)
Join(cs) == IF cs = <<>> THEN "" ELSE Head(cs) \o Join(Tail(cs))

\* lines 34-45: get(key) is NaN without the attribute
GetRgbChannel(attr) == IF attr = NoAttr THEN NaN ELSE ParseFloat(attr)

\* lines 91-101
ResolveColor(c) ==
    IF ~c.present THEN "#94a3b8"
    ELSE IF c.hex.present /\ Len(c.hex.chars) > 0
    THEN Join(IF c.hex.chars[1] = "#" THEN c.hex.chars ELSE <<"#">> \o c.hex.chars)
    ELSE LET r == GetRgbChannel(c.r)
             g == GetRgbChannel(c.g)
             b == GetRgbChannel(c.b)
         IN  IF r.t = "num" /\ g.t = "num" /\ b.t = "num"
             THEN RgbToHex(r.v, g.v, b.v)
             ELSE "#94a3b8"

\* lines 117-123: authorType is the value of the attvalue for "d3", null
\* (NoAttr) without one
\* a reading of the type attribute that tells papers from authors
NodeTypeByAttribute(authorType, options) ==
    IF options.citation /\ authorType \in {"cited", "paper"} THEN "paper" ELSE "author"

NodeType(authorType, options) ==
    IF options.coauthorship THEN "author"
    ELSE IF options.citation
    THEN (IF authorType = "source" \/ authorType = "citing" THEN "author" ELSE "author")
    ELSE "author"

\* lines 80-135: one <node> element to a GraphNode
ParseNode(n, options) ==
    LET id == Coalesce(n.id, "")
        label == Coalesce(n.label, id)
        x == IF n.pos.present THEN ParseFloat(Coalesce(n.pos.x, "0")) ELSE Num(0)
        y == IF n.pos.present THEN ParseFloat(Coalesce(n.pos.y, "0")) ELSE Num(0)
    IN  [id |-> id, label |-> label, fullLabel |-> label, group |-> "unknown",
         val |-> Num(5), color |-> ResolveColor(n.color),
         nodeType |-> NodeType(n.d3, options),
         x |-> x, y |-> y]

RECURSIVE ParseNodes(_, _, _, _)
ParseNodes(els, options, i, nodeMap) ==
    IF i > Len(els) THEN nodeMap
    ELSE ParseNodes(els, options, i + 1, MapSet(nodeMap, ParseNode(els[i], options)))

\* EdgeKept without the truthiness test of the two attributes
EdgeKeptAnyString(e, nodeMap) ==
    /\ MapHas(nodeMap, e.source)
    /\ MapHas(nodeMap, e.target)

\* line 149: the guard of links.push
EdgeKept(e, nodeMap) ==
    /\ Truthy(e.source)
    /\ Truthy(e.target)
    /\ MapHas(nodeMap, e.source)
    /\ MapHas(nodeMap, e.target)

\* an endpoint that is a reference to the i-th object of the node list
Ref(i) == [k |-> "ref", i |-> i, id |-> NoAttr, x |-> Undef, y |-> Undef]
\* an endpoint that is a bare id string
IdEnd(id) == [k |-> "id", i |-> 0, id |-> id, x |-> Undef, y |-> Undef]
\* an endpoint that is an object of its own (not in the node list)
ObjEnd(n) == [k |-> "obj", i |-> 0, id |-> n.id, x |-> n.x, y |-> n.y]

RECURSIVE ParseEdges(_, _, _)
ParseEdges(els, nodeMap, i) ==
    IF i > Len(els) THEN <<>>
    ELSE LET e == els[i]
             weight == ParseFloat(Coalesce(e.weight, "1"))
         IN  (IF EdgeKept(e, nodeMap)
              THEN <<[source |-> Ref(MapIndex(nodeMap, e.source)),
                      target |-> Ref(MapIndex(nodeMap, e.target)),
                      value |-> weight]>>
              ELSE <<>>) \o ParseEdges(els, nodeMap, i + 1)

Threw(msg) == [ok |-> FALSE, error |-> msg, nodes |-> <<>>, links |-> <<>>]
Returned(nodes, links) == [ok |-> TRUE, error |-> "", nodes |-> nodes, links |-> links]

\* DOMParser.parseFromString: text that is not well-formed yields a document
\* holding a <parsererror> element whose text is the XML diagnostic
DOMParse(text) ==
    IF text.wellFormed
    THEN [parsererror |-> NoAttr, graph |-> text.graph,
          nodes |-> text.nodes, edges |-> text.edges]
    ELSE [parsererror |-> text.diag, graph |-> FALSE, nodes |-> <<>>, edges |-> <<>>]

\* ParseGexf with the graph lookup made before the parsererror lookup
ParseGexfRootFirst(xmlText, options) ==
    LET d == DOMParse(xmlText)
    IN  IF ~d.graph
        THEN Threw("GEXF: missing graph")
        ELSE IF d.parsererror # NoAttr
        THEN Threw("GEXF parse error: "
                     \o (IF d.parsererror # "" THEN d.parsererror ELSE "Invalid XML"))
        ELSE LET nodeMap == ParseNodes(d.nodes, options, 1, <<>>)
             IN  Returned(nodeMap, ParseEdges(d.edges, nodeMap, 1))

\* lines 62-159
ParseGexf(xmlText, options) ==
    LET d == DOMParse(xmlText)
    IN  IF d.parsererror # NoAttr
        THEN Threw("GEXF parse error: "
                     \o (IF d.parsererror # "" THEN d.parsererror ELSE "Invalid XML"))
        ELSE IF ~d.graph
        THEN Threw("GEXF: missing graph")
        ELSE LET nodeMap == ParseNodes(d.nodes, options, 1, <<>>)
             IN  Returned(nodeMap, ParseEdges(d.edges, nodeMap, 1))

-----------------------------------------------------------------------------
(* Documents of the parse harness *)

MaxNodes == 3
MaxEdges == 2

NodeIdAttrs == {NoAttr, "A", "B"}
EndAttrs == {NoAttr, "", "A", "B", "Z"}

SeqsUpTo(S, n) == UNION {[1..k -> S] : k \in 0..n}

NodeEls == {[id |-> i, label |-> NoAttr, pos |-> NoPos, color |-> NoColor, d3 |-> NoAttr] : i \in NodeIdAttrs}
\* every <edge> with "A" at one end, without a weight, and A->B with weight 2
EdgeEls ==
    {e \in [source : EndAttrs, target : EndAttrs, weight : {NoAttr}] :
        e.source = "A" \/ e.target = "A"}
    \cup {[source |-> "A", target |-> "B", weight |-> "2"]}

MalformedText == [wellFormed |-> FALSE, diag |-> "error on line 1", graph |-> FALSE,
                  nodes |-> <<>>, edges |-> <<>>]
NoGraphText == [wellFormed |-> TRUE, diag |-> "", graph |-> FALSE,
                nodes |-> <<>>, edges |-> <<>>]
GraphTexts ==
    {[wellFormed |-> TRUE, diag |-> "", graph |-> TRUE, nodes |-> ns, edges |-> es] :
        ns \in SeqsUpTo(NodeEls, MaxNodes), es \in SeqsUpTo(EdgeEls, MaxEdges)}

Texts == {MalformedText, NoGraphText} \cup GraphTexts

NotParsed == [ok |-> FALSE, error |-> "<pending>", nodes |-> <<>>, links |-> <<>>]

-----------------------------------------------------------------------------
(* constants.ts: domains, papers and the bundled sample networks *)

NumDomains == 2
NumSubAreas == 2

\* DOMAINS, ids and sub-areas
AllDomains ==
    <<[id |-> "MAN", subAreas |-> <<"Additive Mfg", "Smart Factories", "Lean Principles", "CAD/CAM">>],
      [id |-> "HLT", subAreas |-> <<"Patient Flow", "Telehealth", "Medical Decision Making", "Public Health">>],
      [id |-> "DAT", subAreas |-> <<"Machine Learning", "Predictive Analytics", "LLMs in IE", "Optimization">>],
      [id |-> "SUP", subAreas |-> <<"Logistics", "Resilience", "Inventory Control", "Blockchain">>],
      [id |-> "SUS", subAreas |-> <<"Circular Economy", "Green Energy", "Carbon Footprint", "Waste Mgmt">>],
      [id |-> "HFE", subAreas |-> <<"Cognitive Ergo", "Safety", "Human-Robot Interaction", "UX Design">>]>>

\* domainsList as the views see it: the first NumDomains domains, each with its
\* first NumSubAreas sub-areas
DomainsList ==
    [i \in 1..NumDomains |->
        [id |-> AllDomains[i].id,
         subAreas |-> SubSeq(AllDomains[i].subAreas, 1, NumSubAreas)]]

\* papersList: the record store the subdomain filter looks papers up in
PapersList ==
    <<[id |-> "P1", domainId |-> "MAN", subArea |-> "Additive Mfg"],
      [id |-> "P2", domainId |-> "MAN", subArea |-> "Smart Factories"],
      [id |-> "P3", domainId |-> "HLT", subArea |-> "Patient Flow"]>>

GraphNode(id, group, nodeType, x, y) ==
    [id |-> id, label |-> id, fullLabel |-> id, group |-> group, val |-> Num(1),
     color |-> "#64748b", nodeType |-> nodeType, x |-> x, y |-> y]

Link(s, t) == [source |-> s, target |-> t, value |-> Num(1)]

\* the generated sample networks: no coordinates, links by id
MockSocial ==
    [nodes |-> <<GraphNode("A", "Georgia Tech", "author", Undef, Undef),
                 GraphNode("B", "Purdue Univ.", "author", Undef, Undef)>>,
     links |-> <<Link(IdEnd("A"), IdEnd("B"))>>]
MockCitationMixed ==
    [nodes |-> <<GraphNode("P1", "MAN", "paper", Undef, Undef),
                 GraphNode("A", "AUTHOR", "author", Undef, Undef)>>,
     links |-> <<Link(IdEnd("A"), IdEnd("P1"))>>]
MockCitationPaper ==
    [nodes |-> <<GraphNode("P1", "MAN", "paper", Undef, Undef),
                 GraphNode("P3", "HLT", "paper", Undef, Undef)>>,
     links |-> <<Link(IdEnd("P1"), IdEnd("P3"))>>]
MockCitationAuthor ==
    [nodes |-> <<GraphNode("A", "Georgia Tech", "author", Undef, Undef),
                 GraphNode("B", "Purdue Univ.", "author", Undef, Undef)>>,
     links |-> <<Link(IdEnd("A"), IdEnd("B"))>>]

-----------------------------------------------------------------------------
(* Community.tsx: the dataset handed to the D3 effect (useMemo, lines 65-115) *)

\* JSON.stringify writes NaN as null and leaves an undefined property out
JsonNum(v) == IF v.t = "NaN" THEN NullV ELSE v

\* a node object after JSON.parse(JSON.stringify(..)); fx, fy: not yet set
DataNode(n) ==
    [id |-> n.id, label |-> n.label, fullLabel |-> n.fullLabel, group |-> n.group,
     val |-> JsonNum(n.val), color |-> n.color, nodeType |-> n.nodeType,
     x |-> JsonNum(n.x), y |-> JsonNum(n.y), fx |-> Undef, fy |-> Undef]

\* an endpoint after the round trip: a referenced node object is written out in
\* place and read back as an object of its own
JsonEnd(e, nodes) ==
    IF e.k = "ref" THEN ObjEnd(DataNode(nodes[e.i]))
    ELSE [e EXCEPT !.x = JsonNum(@), !.y = JsonNum(@)]

\* JSON.parse(JSON.stringify(net))
JsonRoundTrip(net) ==
    [nodes |-> [i \in 1..Len(net.nodes) |-> DataNode(net.nodes[i])],
     links |-> [j \in 1..Len(net.links) |->
                  [source |-> JsonEnd(net.links[j].source, net.nodes),
                   target |-> JsonEnd(net.links[j].target, net.nodes),
                   value |-> JsonNum(net.links[j].value)]]]

\* network?.nodes?.length ? network : MOCK
SelectNet(net, mock) == IF Len(net.nodes) > 0 THEN net ELSE mock

\* lines 66-80
BaseNetwork(m, ct, c) ==
    IF m = "SOCIAL" THEN SelectNet(c.social, MockSocial)
    ELSE IF ct = "PAPER" THEN SelectNet(c.paper, MockCitationPaper)
    ELSE IF ct = "AUTHOR" THEN SelectNet(c.author, MockCitationAuthor)
    ELSE SelectNet(c.mixed, MockCitationMixed)

\* lines 91-100: the paper node matches the filter
MatchesFilter(node, filter) ==
    IF filter.type = "domain"
    THEN node.group = filter.value
    ELSE \E i \in 1..Len(PapersList) :
            /\ PapersList[i].id = node.id
            /\ \A h \in 1..(i - 1) : PapersList[h].id # node.id
            /\ PapersList[i].domainId = filter.domainId
            /\ PapersList[i].subArea = filter.value

\* lines 87-101
\* NodeKept with the filters combined conjunctively
NodeKeptByAll(node, filters) ==
    \/ node.nodeType # "paper"
    \/ \A f \in 1..Len(filters) : MatchesFilter(node, filters[f])

NodeKept(node, filters) ==
    \/ node.nodeType # "paper"
    \/ \E f \in 1..Len(filters) : MatchesFilter(node, filters[f])

\* lines 65-115
ComputeData(m, ct, filters, c) ==
    LET baseData == JsonRoundTrip(BaseNetwork(m, ct, c))
    IN  IF Len(filters) > 0 /\ m = "CITATION"
        THEN LET keptNode(n) == NodeKept(n, filters)
                 nodes == SelectSeq(baseData.nodes, keptNode)
                 nodeIds == {nodes[i].id : i \in 1..Len(nodes)}
                 keptLink(l) == l.source.id \in nodeIds /\ l.target.id \in nodeIds
             IN  [nodes |-> nodes, links |-> SelectSeq(baseData.links, keptLink)]
        ELSE baseData

-----------------------------------------------------------------------------
(* Community.tsx: the D3 effect (lines 182-446) *)

\* HasGexfLayout looking at x alone
HasGexfLayoutXOnly(d) ==
    /\ Len(d.nodes) > 0
    /\ \A i \in 1..Len(d.nodes) : IsNumberType(d.nodes[i].x)

\* lines 205-207
HasGexfLayout(d) ==
    /\ Len(d.nodes) > 0
    /\ \A i \in 1..Len(d.nodes) : IsNumberType(d.nodes[i].x) /\ IsNumberType(d.nodes[i].y)

\* d3.forceSimulation(nodes): a node without coordinates is placed on the
\* phyllotaxis spiral (rounded here), every other node is left where it is
SpiralX(i) == CASE i = 1 -> 7 [] i = 2 -> 0 - 9 [] OTHER -> i
SpiralY(i) == CASE i = 1 -> 0 [] i = 2 -> 8 [] OTHER -> 0 - 16
InitializeNodes(nodes) ==
    [i \in 1..Len(nodes) |->
        IF nodes[i].x.t \in {"NaN", "undefined"} \/ nodes[i].y.t \in {"NaN", "undefined"}
        THEN [nodes[i] EXCEPT !.x = Num(SpiralX(i)), !.y = Num(SpiralY(i))]
        ELSE nodes[i]]

\* d3.forceLink(links).id(d => d.id): an endpoint that is not an object is looked
\* up by id (the last node with that id); "missing" stands for the lookup that
\* throws 'node not found'
ResolveEnd(e, nodes) ==
    IF e.k # "id" THEN e
    ELSE IF \E i \in 1..Len(nodes) : nodes[i].id = e.id
    THEN Ref(CHOOSE i \in 1..Len(nodes) :
                /\ nodes[i].id = e.id
                /\ \A h \in (i + 1)..Len(nodes) : nodes[h].id # e.id)
    ELSE [e EXCEPT !.k = "missing"]

ForceLinkInit(links, nodes) ==
    [j \in 1..Len(links) |->
        [links[j] EXCEPT !.source = ResolveEnd(@, nodes), !.target = ResolveEnd(@, nodes)]]

\* L.source.x as the attribute callbacks read it
EndX(e, nodes) == IF e.k = "ref" THEN nodes[e.i].x ELSE IF e.k = "obj" THEN e.x ELSE Undef
EndY(e, nodes) == IF e.k = "ref" THEN nodes[e.i].y ELSE IF e.k = "obj" THEN e.y ELSE Undef

\* updatePositions (lines 421-425), and the same three calls in the drag handler
RenderLines(d) ==
    [j \in 1..Len(d.links) |->
        [x1 |-> EndX(d.links[j].source, d.nodes), y1 |-> EndY(d.links[j].source, d.nodes),
         x2 |-> EndX(d.links[j].target, d.nodes), y2 |-> EndY(d.links[j].target, d.nodes)]]
RenderCircles(d) ==
    [i \in 1..Len(d.nodes) |-> [cx |-> d.nodes[i].x, cy |-> d.nodes[i].y]]

NoLines(d) == [j \in 1..Len(d.links) |-> [x1 |-> Undef, y1 |-> Undef, x2 |-> Undef, y2 |-> Undef]]
NoCircles(d) == [i \in 1..Len(d.nodes) |-> [cx |-> Undef, cy |-> Undef]]

\* history: the coordinates the nodes carried when the effect started
Coordinates(d) == [i \in 1..Len(d.nodes) |-> [x |-> d.nodes[i].x, y |-> d.nodes[i].y]]

ClientWidth == 800
ContainerHeight == 600

\* A d3 zoom transform: k is the scale, x and y the translation, all three in
\* thousandths; nan names the translations that are NaN (x or y is then 0 here)
Identity == [k |-> 1000, x |-> 0, y |-> 0, nan |-> {}]

MinOf(S) == CHOOSE m \in S : \A n \in S : m <= n
MaxOf(S) == CHOOSE m \in S : \A n \in S : m >= n

\* d3.extent looks only at the values that compare with themselves: undefined,
\* null and NaN are passed over
Comparable(vals) == {u.v : u \in {v \in vals : v.t = "num"}}

\* lines 213-223: the fit of the bounding box of the nodes into a container
\* actualWidth wide, scale at most 1.2;
\* d3.zoomIdentity.translate(actualWidth / 2, height / 2).scale(scale).translate(-cx, -cy)
FitBounds(d, actualWidth) ==
    LET xs == Comparable({d.nodes[i].x : i \in 1..Len(d.nodes)})
        ys == Comparable({d.nodes[i].y : i \in 1..Len(d.nodes)})
        cx2 == IF xs = {} THEN 0 ELSE MinOf(xs) + MaxOf(xs)
        cy2 == IF ys = {} THEN 0 ELSE MinOf(ys) + MaxOf(ys)
        w == IF xs = {} \/ MaxOf(xs) - MinOf(xs) = 0 THEN 1 ELSE MaxOf(xs) - MinOf(xs)
        h == IF ys = {} \/ MaxOf(ys) - MinOf(ys) = 0 THEN 1 ELSE MaxOf(ys) - MinOf(ys)
        padding == 80
        scale == MinOf({((actualWidth - padding) * 1000) \div w,
                        ((ContainerHeight - padding) * 1000) \div h,
                        1200})
    IN  [k |-> scale,
         x |-> IF xs = {} THEN 0 ELSE 500 * actualWidth - (scale * cx2) \div 2,
         y |-> IF ys = {} THEN 0 ELSE 500 * ContainerHeight - (scale * cy2) \div 2,
         nan |-> {a \in {"x", "y"} : (a = "x" /\ xs = {}) \/ (a = "y" /\ ys = {})}]

\* lines 225-227: the scale 0.8 about the centre of the container
AboutCentre(actualWidth) ==
    [k |-> 800, x |-> 100 * actualWidth, y |-> 100 * ContainerHeight, nan |-> {}]

\* lines 210-229: the transform the requested animation frame applies with
\* zoom.transform, which does not clamp the scale to the scale extent
InitialTransform(d, hasGexfLayout) ==
    IF hasGexfLayout THEN FitBounds(d, clientWidth) ELSE AboutCentre(clientWidth)

\* Cleanup stopping no simulation and removing no listener
CleanupNothing(sc) == [simulations |-> sc.simulations, listeners |-> sc.listeners]

\* lines 442-445: the cleanup the effect returned, run before the effect runs
\* again; an effect that threw returned none.  Gives the number of simulations
\* not stopped and of 'node-clicked' listeners registered.
Cleanup(sc) ==
    IF sc.built /\ ~sc.crashed
    THEN [simulations |-> sc.simulations - (IF sc.simulation THEN 1 ELSE 0),
          listeners |-> sc.listeners - 1]
    ELSE [simulations |-> sc.simulations, listeners |-> sc.listeners]

\* The effect body.  Returns the dataset as the effect leaves it (the simulation
\* writes coordinates and link endpoints into it) and the scene.  The animation
\* frame the body requests (line 210) is taken to run before the next event:
\* zoom and home hold the transform it applies, homeBy names what wrote home.
\* alphaTarget is in tenths; gestures counts the zoom gestures since the run.
RunEffect(d) ==
    IF HasGexfLayout(d)
    THEN [data |-> d,
          scene |-> [built |-> TRUE, hasGexfLayout |-> TRUE, simulation |-> FALSE,
                     crashed |-> FALSE, lines |-> RenderLines(d),
                     circles |-> RenderCircles(d), dragging |-> 0,
                     input |-> Coordinates(d), simulations |-> 0, listeners |-> 1,
                     alphaTarget |-> 0, running |-> FALSE,
                     zoom |-> InitialTransform(d, TRUE), homeBy |-> "frame",
                     home |-> InitialTransform(d, TRUE), gestures |-> 0]]
    ELSE LET nodes == InitializeNodes(d.nodes)
             links == ForceLinkInit(d.links, nodes)
             d2 == [nodes |-> nodes, links |-> links]
             crashed == \E j \in 1..Len(links) :
                            links[j].source.k = "missing" \/ links[j].target.k = "missing"
         IN  [data |-> d2,
              scene |-> [built |-> TRUE, hasGexfLayout |-> FALSE, simulation |-> TRUE,
                         crashed |-> crashed, lines |-> NoLines(d2),
                         circles |-> NoCircles(d2), dragging |-> 0,
                         input |-> Coordinates(d), simulations |-> 1,
                         listeners |-> IF crashed THEN 0 ELSE 1,
                         alphaTarget |-> 0, running |-> TRUE,
                         zoom |-> InitialTransform(d2, FALSE), homeBy |-> "frame",
                         home |-> InitialTransform(d2, FALSE), gestures |-> 0]]

\* a re-run of the effect: the cleanup of the previous run, then the body,
\* whose simulation (line 234) and listener (line 419) are added to what the
\* cleanup left
Install(prev, built) ==
    LET left == Cleanup(prev)
    IN  [built EXCEPT !.simulations = left.simulations + built.simulations,
                      !.listeners = left.listeners + built.listeners]

-----------------------------------------------------------------------------
(* Community.tsx: the highlight effect (lines 451-503) *)

\* the characters of the strings that occur as labels and search terms; a string
\* the table does not spell counts as one symbol
Chars(s) ==
    CASE s = "" -> <<>>
      [] s = "A" -> <<"A">>
      [] s = "B" -> <<"B">>
      [] s = "C" -> <<"C">>
      [] s = "P1" -> <<"P", "1">>
      [] s = "P2" -> <<"P", "2">>
      [] s = "P3" -> <<"P", "3">>
      [] s = "Al" -> <<"A", "l">>
      [] s = "Al Bo" -> <<"A", "l", " ", "B", "o">>
      [] s = "Bo" -> <<"B", "o">>
      [] s = "Cy" -> <<"C", "y">>
      [] s = "bo" -> <<"b", "o">>
      [] s = "AL" -> <<"A", "L">>
      [] s = "x" -> <<"x">>
      [] OTHER -> <<s>>

LowerChar(c) ==
    CASE c = "A" -> "a" [] c = "B" -> "b" [] c = "C" -> "c" [] c = "L" -> "l"
      [] c = "O" -> "o" [] c = "P" -> "p" [] c = "Y" -> "y" [] OTHER -> c

\* String.prototype.toLowerCase
ToLowerCase(cs) == [k \in 1..Len(cs) |-> LowerChar(cs[k])]

\* String.prototype.includes
Includes(cs, ts) ==
    \E k \in 0..(Len(cs) - Len(ts)) : SubSeq(cs, k + 1, k + Len(ts)) = ts

NoLink == [j |-> 0, source |-> NoAttr, target |-> NoAttr]

\* L.source.id as the callbacks read it: undefined on an endpoint that is a string
LinkEndId(e, nodes) ==
    IF e.k = "ref" THEN nodes[e.i].id ELSE IF e.k = "obj" THEN e.id ELSE NoAttr

\* the link object j of the dataset as hoverLink holds it
HoveredLink(d, j) ==
    [j |-> j, source |-> LinkEndId(d.links[j].source, d.nodes),
     target |-> LinkEndId(d.links[j].target, d.nodes)]

\* a hovered link after the dataset was recomputed: no link of the new dataset
\* is that object
Detached(hl) == [hl EXCEPT !.j = 0]

\* IsHighlight looking at the short label alone
IsHighlightLabelOnly(n, term, hn, hl, ws) ==
    IF term # ""
    THEN Includes(ToLowerCase(Chars(n.label)), ToLowerCase(Chars(term)))
    ELSE \/ hl # NoLink /\ (n.id = hl.source \/ n.id = hl.target)
         \/ hn # NoAttr /\ n.id = hn
         \/ \E k \in 1..Len(ws) : ws[k].id = n.id

\* lines 458-470
IsHighlight(n, term, hn, hl, ws) ==
    IF term # ""
    THEN \/ Includes(ToLowerCase(Chars(n.label)), ToLowerCase(Chars(term)))
         \/ Includes(ToLowerCase(Chars(n.fullLabel)), ToLowerCase(Chars(term)))
    ELSE \/ hl # NoLink /\ (n.id = hl.source \/ n.id = hl.target)
         \/ hn # NoAttr /\ n.id = hn
         \/ \E k \in 1..Len(ws) : ws[k].id = n.id

\* lines 473-481; opacities in tenths
NodeStyle(n, term, hn, hl, ws) ==
    LET hi == IsHighlight(n, term, hn, hl, ws)
    IN  [opacity |-> IF term # "" THEN (IF hi THEN 10 ELSE 1)
                     ELSE IF hn # NoAttr \/ hl # NoLink THEN (IF hi THEN 10 ELSE 3)
                     ELSE 10,
         strong |-> hi]

\* d.source.id === hoverNode.id || d.target.id === hoverNode.id
Incident(l, nodes, hn) ==
    hn # NoAttr /\ (LinkEndId(l.source, nodes) = hn \/ LinkEndId(l.target, nodes) = hn)

\* lines 484-500
LinkStyle(d, j, term, hn, hl) ==
    LET isHovered == hl # NoLink /\ hl.j = j
        incident == Incident(d.links[j], d.nodes, hn)
    IN  [opacity |-> IF term # "" THEN 1
                     ELSE IF hl # NoLink THEN (IF isHovered THEN 10 ELSE 1)
                     ELSE IF hn # NoAttr THEN (IF incident THEN 10 ELSE 1)
                     ELSE 6,
         emphasis |-> IF isHovered THEN "hovered" ELSE IF incident THEN "incident"
                      ELSE "plain"]

\* the highlight effect
ApplyHighlight(d, term, hn, hl, ws) ==
    [applied |-> TRUE,
     nodes |-> [i \in 1..Len(d.nodes) |-> NodeStyle(d.nodes[i], term, hn, hl, ws)],
     links |-> [j \in 1..Len(d.links) |-> LinkStyle(d, j, term, hn, hl)]]

\* circles and lines as the D3 effect creates them (lines 244-251, 306-317)
DefaultStyles(d) ==
    [applied |-> FALSE,
     nodes |-> [i \in 1..Len(d.nodes) |-> [opacity |-> 10, strong |-> FALSE]],
     links |-> [j \in 1..Len(d.links) |-> [opacity |-> 6, emphasis |-> "plain"]]]

\* the styles after a render: the highlight effect runs when one of searchTerm,
\* hoverNode, hoverLink, windows changed; a scene rebuilt without it keeps the
\* styles the elements were created with
Restyle(rerun, rebuilt) ==
    styles' = IF rerun
              THEN ApplyHighlight(data', searchTerm', hoverNode', hoverLink', windows')
              ELSE IF rebuilt THEN DefaultStyles(data')
              ELSE styles

-----------------------------------------------------------------------------
(* Rest values: a subsystem that a specification does not exercise stays here *)

EmptyNet == [nodes |-> <<>>, links |-> <<>>]
\* the data context as constructed (lines 260-269): the bundled sample networks
RestCtx == [social |-> MockSocial, mixed |-> MockCitationMixed,
            paper |-> MockCitationPaper, author |-> MockCitationAuthor,
            source |-> [social |-> FALSE, mixed |-> FALSE, paper |-> FALSE,
                        author |-> FALSE]]
NotFetched == "<none>"
NoAttempt == [gexf |-> NotFetched, json |-> NotFetched]
\* loadFromPublic before it is called; seen is the history of what each fetch gave
RestLoad == [pc |-> "idle", anyLoaded |-> FALSE, isDataLoading |-> TRUE,
             loadingMessage |-> "Initializing...",
             failed |-> FALSE, escaped |-> FALSE, label |-> NoAttr,
             seen |-> [social |-> NoAttempt, mixed |-> NoAttempt,
                       paper |-> NoAttempt, author |-> NoAttempt]]
RestScene == [built |-> FALSE, hasGexfLayout |-> FALSE, simulation |-> FALSE,
              crashed |-> FALSE, lines |-> <<>>, circles |-> <<>>, dragging |-> 0,
              input |-> <<>>, simulations |-> 0, listeners |-> 0,
              alphaTarget |-> 0, running |-> FALSE,
              zoom |-> Identity, homeBy |-> "none", home |-> Identity, gestures |-> 0]

ParseAtRest == doc = MalformedText /\ result = NotParsed
LoadAtRest == ctx = RestCtx /\ load = RestLoad
ViewAtRest ==
    /\ mode = "SOCIAL" /\ citationType = "AUTHOR" /\ activeFilters = <<>>
    /\ data = EmptyNet /\ scene = RestScene
ContainerAtRest == clientWidth = ClientWidth
WinAtRest ==
    /\ windows = <<>> /\ nextZIndex = 10 /\ draggingId = NoAttr
    /\ dragOffset = [x |-> 0, y |-> 0] /\ openedUnder = <<>>
HlAtRest ==
    /\ searchTerm = "" /\ hoverNode = NoAttr /\ hoverLink = NoLink
    /\ styles = DefaultStyles(EmptyNet)

-----------------------------------------------------------------------------
(* Community.tsx: handlers.  A handler's step includes the re-render it causes:
   the dataset is recomputed when mode, citationType or activeFilters change,
   and the D3 effect runs again when the dataset or addWindow (that is,
   nextZIndex) changes. *)

MaxZ == 13
MaxFilters == 3
MaxCoord == 50

AnchorXs == {0, 600}
AnchorYs == {0, 100}
PointerXs == {100, 130}
PointerYs == {100}
DragDeltas == {[dx |-> 40, dy |-> 0], [dx |-> 0, dy |-> 40]}

Min(a, b) == IF a < b THEN a ELSE b
Max(a, b) == IF a > b THEN a ELSE b

\* the component is mounted and its effect has not thrown
Mounted == scene.built /\ ~scene.crashed

Recompute(m, ct, f) ==
    LET r == RunEffect(ComputeData(m, ct, f, ctx))
    IN  data' = r.data /\ scene' = Install(scene, r.scene) /\ hoverLink' = Detached(hoverLink)

Rebuild ==
    LET r == RunEffect(data)
    IN  data' = r.data /\ scene' = Install(scene, r.scene) /\ hoverLink' = hoverLink

\* line 135: containerRef.current?.clientWidth || 800
EffectiveWidth == IF clientWidth = 0 THEN ClientWidth ELSE clientWidth

HasWindow(ws, id) == \E k \in 1..Len(ws) : ws[k].id = id

\* RaiseWindow giving the new z-index to every window
RaiseAllWindows(ws, id, z) ==
    [k \in 1..Len(ws) |-> [ws[k] EXCEPT !.zIndex = z]]

\* the windows after addWindow finds the id already open (lines 128-130)
RaiseWindow(ws, id, z) ==
    [k \in 1..Len(ws) |-> IF ws[k].id = id THEN [ws[k] EXCEPT !.zIndex = z] ELSE ws[k]]

\* AddWindow without the lookup of the id among the open windows
AddWindowNoLookup(ws, id, initialX, initialY, z) ==
    Append(ws, [id |-> id,
                x |-> Min(initialX + 20 + (Len(ws) * 10), EffectiveWidth - 300),
                y |-> Max(initialY - 50 + (Len(ws) * 10), 20),
                zIndex |-> z + 1])

\* lines 126-141
AddWindow(ws, id, initialX, initialY, z) ==
    IF HasWindow(ws, id)
    THEN RaiseWindow(ws, id, z + 1)
    ELSE LET offsetCount == Len(ws)
         IN  Append(ws, [id |-> id,
                         x |-> Min(initialX + 20 + (offsetCount * 10), EffectiveWidth - 300),
                         y |-> Max(initialY - 50 + (offsetCount * 10), 20),
                         zIndex |-> z + 1])

\* lines 413, 416-419: the 'node-clicked' event reaches every registered
\* listener, and each calls addWindow
RECURSIVE Dispatch(_, _, _, _, _, _)
Dispatch(ws, id, initialX, initialY, z, n) ==
    IF n = 0 THEN ws
    ELSE Dispatch(AddWindow(ws, id, initialX, initialY, z), id, initialX, initialY, z, n - 1)

\* lines 408-418: click on a node, the 'node-clicked' event, addWindow
NodeClick(i, sx, sy) ==
    /\ Mounted
    /\ i \in 1..Len(data.nodes)
    /\ nextZIndex < MaxZ
    /\ windows' = Dispatch(windows, data.nodes[i].id, sx, sy, nextZIndex, scene.listeners)
    /\ nextZIndex' = nextZIndex + scene.listeners
    /\ openedUnder' = IF Len(windows') > Len(windows)
                      THEN Append(openedUnder, <<mode, citationType>>)
                      ELSE openedUnder
    /\ Rebuild
    /\ last' = OpAt(IF HasWindow(windows, data.nodes[i].id)
                    THEN "addWindowExisting" ELSE "addWindow", i, sx, sy)
    /\ UNCHANGED <<parseVars, clientWidth, loadVars, mode, citationType, activeFilters,
                   draggingId, dragOffset, searchTerm, hoverNode>>
    /\ Restyle(TRUE, TRUE)

\* Kept keeping no window at all
KeptNone(ws, id) == <<>>

\* line 144: the positions of the windows that prev.filter(w => w.id !== id) keeps
Kept(ws, id) == SelectIdx(ws, [j \in 1..Len(ws) |-> ws[j].id # id], 1)

\* lines 143-145
CloseWindow(k) ==
    /\ Mounted
    /\ k \in 1..Len(windows)
    /\ LET keep == Kept(windows, windows[k].id)
       IN  /\ windows' = [j \in 1..Len(keep) |-> windows[keep[j]]]
           /\ openedUnder' = [j \in 1..Len(keep) |-> openedUnder[keep[j]]]
    /\ last' = OpAt("closeWindow", k, 0, 0)
    /\ UNCHANGED <<parseVars, clientWidth, loadVars, viewVars, nextZIndex, draggingId, dragOffset,
                   searchTerm, hoverNode, hoverLink>>
    /\ Restyle(TRUE, FALSE)

\* BringToFront keeping no window but the raised one
BringToFrontAlone(ws, id, z) ==
    LET keep == SelectIdx(ws, [j \in 1..Len(ws) |-> ws[j].id = id], 1)
    IN  [j \in 1..Len(keep) |-> [ws[keep[j]] EXCEPT !.zIndex = z + 1]]

\* BringToFront giving the new z-index to every window
BringToFrontAll(ws, id, z) ==
    [k \in 1..Len(ws) |-> [ws[k] EXCEPT !.zIndex = z + 1]]

\* lines 147-150
BringToFront(ws, id, z) ==
    [k \in 1..Len(ws) |-> IF ws[k].id = id THEN [ws[k] EXCEPT !.zIndex = z + 1] ELSE ws[k]]

\* lines 155-160: mouse-down on window k
MouseDown(k, clientX, clientY) ==
    /\ Mounted
    /\ k \in 1..Len(windows)
    /\ nextZIndex < MaxZ
    /\ draggingId' = windows[k].id
    /\ dragOffset' = [x |-> clientX - windows[k].x, y |-> clientY - windows[k].y]
    /\ windows' = BringToFront(windows, windows[k].id, nextZIndex)
    /\ nextZIndex' = nextZIndex + 1
    /\ Rebuild
    /\ last' = OpAt("mouseDown", k, clientX, clientY)
    /\ UNCHANGED <<parseVars, clientWidth, loadVars, mode, citationType, activeFilters, openedUnder,
                   searchTerm, hoverNode>>
    /\ Restyle(TRUE, TRUE)

\* Dragged moving every window
DraggedAll(ws, id, offset, clientX, clientY) ==
    [k \in 1..Len(ws) |-> [ws[k] EXCEPT !.x = clientX - offset.x, !.y = clientY - offset.y]]

\* lines 166-171: the windows after a mouse-move while id is being dragged
Dragged(ws, id, offset, clientX, clientY) ==
    [k \in 1..Len(ws) |->
        IF ws[k].id = id
        THEN [ws[k] EXCEPT !.x = clientX - offset.x, !.y = clientY - offset.y]
        ELSE ws[k]]

\* lines 162-173
MouseMove(clientX, clientY) ==
    /\ Mounted
    /\ windows' = IF Truthy(draggingId)
                  THEN Dragged(windows, draggingId, dragOffset, clientX, clientY)
                  ELSE windows
    /\ last' = OpAt("mouseMove", 0, clientX, clientY)
    /\ UNCHANGED <<parseVars, clientWidth, loadVars, viewVars, nextZIndex, draggingId, dragOffset,
                   openedUnder, searchTerm, hoverNode, hoverLink>>
    /\ Restyle(Truthy(draggingId), FALSE)

\* lines 175-177
MouseUp ==
    /\ Mounted
    /\ draggingId' = NoAttr
    /\ last' = Op("mouseUp")
    /\ UNCHANGED <<parseVars, clientWidth, loadVars, viewVars, windows, nextZIndex, dragOffset,
                   openedUnder, hlVars>>

\* a switch that keeps the open windows
WindowsKept(ws) == ws

\* setWindows([]) of the mode and scope buttons (lines 565, 571, 632, 638)
WindowsCleared(ws) == <<>>

\* history of the windows in step with the windows
UnderAfter(ws) == IF ws = <<>> THEN <<>> ELSE openedUnder

\* line 565: the Co-Authorship button (setActiveFilters([]) is a new array, so
\* the dataset is always recomputed)
SetModeSocial ==
    /\ Mounted
    /\ mode' = "SOCIAL"
    /\ windows' = WindowsCleared(windows)
    /\ openedUnder' = UnderAfter(windows')
    /\ activeFilters' = <<>>
    /\ Recompute("SOCIAL", citationType, <<>>)
    /\ last' = OpAt("setModeSocial", Len(windows), IF mode = "SOCIAL" THEN 0 ELSE 1, 0)
    /\ UNCHANGED <<parseVars, clientWidth, loadVars, citationType, nextZIndex, draggingId, dragOffset,
                   searchTerm, hoverNode>>
    /\ Restyle(TRUE, TRUE)

\* line 571: the Citation button
SetModeCitation ==
    /\ Mounted
    /\ mode' = "CITATION"
    /\ windows' = WindowsCleared(windows)
    /\ openedUnder' = UnderAfter(windows')
    /\ IF mode = "CITATION" THEN UNCHANGED <<data, scene, hoverLink>>
       ELSE Recompute("CITATION", citationType, activeFilters)
    /\ last' = OpAt("setModeCitation", Len(windows), IF mode = "CITATION" THEN 0 ELSE 1, 0)
    /\ UNCHANGED <<parseVars, clientWidth, loadVars, citationType, activeFilters, nextZIndex,
                   draggingId, dragOffset, searchTerm, hoverNode>>
    /\ Restyle(TRUE, mode # "CITATION")

\* lines 632, 638: the citation scope buttons, shown in CITATION mode
SetCitationType(ct) ==
    /\ Mounted
    /\ mode = "CITATION"
    /\ citationType' = ct
    /\ windows' = WindowsCleared(windows)
    /\ openedUnder' = UnderAfter(windows')
    /\ IF citationType = ct THEN UNCHANGED <<data, scene, hoverLink>>
       ELSE Recompute(mode, ct, activeFilters)
    /\ last' = OpAt("setCitationType", Len(windows), IF citationType = ct THEN 0 ELSE 1, 0)
    /\ UNCHANGED <<parseVars, clientWidth, loadVars, mode, activeFilters, nextZIndex, draggingId,
                   dragOffset, searchTerm, hoverNode>>
    /\ Restyle(TRUE, citationType # ct)

-----------------------------------------------------------------------------
(* DomainFilter.tsx (toggleFilter) and the filter tags of Community.tsx *)

DomainFilter(value) == [type |-> "domain", value |-> value, domainId |-> NoAttr]
SubdomainFilter(value, domainId) == [type |-> "subdomain", value |-> value, domainId |-> domainId]

\* findIndex: the first index whose entry equals f, 0 for -1
FindIndex(fs, f) ==
    IF \E i \in 1..Len(fs) : fs[i] = f
    THEN CHOOSE i \in 1..Len(fs) : fs[i] = f /\ \A h \in 1..(i - 1) : fs[h] # f
    ELSE 0

\* splice(index, 1)
Splice(fs, index) == SubSeq(fs, 1, index - 1) \o SubSeq(fs, index + 1, Len(fs))

\* lines 56-62: the forEach over the sub-areas of the domain
RECURSIVE RemoveSubAreas(_, _, _, _)
RemoveSubAreas(fs, subAreas, value, i) ==
    IF i > Len(subAreas) THEN fs
    ELSE LET subIndex == FindIndex(fs, SubdomainFilter(subAreas[i], value))
         IN  RemoveSubAreas(IF subIndex > 0 THEN Splice(fs, subIndex) ELSE fs,
                            subAreas, value, i + 1)

\* lines 48-66: toggleFilter('domain', value)
ToggleDomainFilter(fs, d) ==
    LET value == DomainsList[d].id
        index == FindIndex(fs, DomainFilter(value))
    IN  IF index > 0
        THEN RemoveSubAreas(Splice(fs, index), DomainsList[d].subAreas, value, 1)
        ELSE Append(fs, DomainFilter(value))

\* lines 67-77: toggleFilter('subdomain', value, domainId)
ToggleSubdomainFilter(fs, value, domainId) ==
    LET index == FindIndex(fs, SubdomainFilter(value, domainId))
    IN  IF index > 0 THEN Splice(fs, index)
        ELSE Append(fs, SubdomainFilter(value, domainId))

IsDomainSelected(fs, domainId) == FindIndex(fs, DomainFilter(domainId)) > 0

\* setActiveFilters(newFilters) and the re-render
SetActiveFilters(newFilters, name, i) ==
    /\ activeFilters' = newFilters
    /\ Recompute(mode, citationType, newFilters)
    /\ last' = OpAt(name, i, 0, 0)
    /\ UNCHANGED <<parseVars, clientWidth, loadVars, mode, citationType, winVars, searchTerm, hoverNode>>
    /\ Restyle(FALSE, TRUE)

\* the checkbox of domain d (the filter is shown in CITATION mode)
ToggleDomain(d) ==
    /\ Mounted
    /\ mode = "CITATION"
    /\ d \in 1..Len(DomainsList)
    /\ IsDomainSelected(activeFilters, DomainsList[d].id) \/ Len(activeFilters) < MaxFilters
    /\ SetActiveFilters(ToggleDomainFilter(activeFilters, d), "toggleDomain", d)

\* the checkbox of sub-area a of domain d, shown while the domain is selected
ToggleSubdomain(d, a) ==
    /\ Mounted
    /\ mode = "CITATION"
    /\ d \in 1..Len(DomainsList)
    /\ a \in 1..Len(DomainsList[d].subAreas)
    /\ IsDomainSelected(activeFilters, DomainsList[d].id)
    /\ \/ FindIndex(activeFilters, SubdomainFilter(DomainsList[d].subAreas[a], DomainsList[d].id)) > 0
       \/ Len(activeFilters) < MaxFilters
    /\ SetActiveFilters(ToggleSubdomainFilter(activeFilters, DomainsList[d].subAreas[a],
                                              DomainsList[d].id), "toggleSubdomain", d)

\* Community.tsx lines 610-614: the remove button of the filter tag at index
RemoveFilterTag(index) ==
    /\ Mounted
    /\ mode = "CITATION"
    /\ index \in 1..Len(activeFilters)
    /\ SetActiveFilters(Splice(activeFilters, index), "removeFilterTag", index)

-----------------------------------------------------------------------------
(* Community.tsx: node drag (lines 318-338) *)

\* a coordinate as arithmetic reads it
NumVal(v) == IF v.t = "num" THEN v.v ELSE 0

InRange(v) == v >= 0 - MaxCoord /\ v <= MaxCoord

\* "start"
DragStart(i) ==
    /\ Mounted
    /\ scene.dragging = 0
    /\ i \in 1..Len(data.nodes)
    /\ data' = [data EXCEPT !.nodes[i].fx = data.nodes[i].x, !.nodes[i].fy = data.nodes[i].y]
    /\ scene' = [scene EXCEPT !.dragging = i,
                              !.alphaTarget = IF scene.simulation THEN 3 ELSE @,
                              !.running = IF scene.simulation THEN TRUE ELSE @]
    /\ last' = OpAt("dragStart", i, 0, 0)
    /\ UNCHANGED <<parseVars, clientWidth, loadVars, mode, citationType, activeFilters, winVars, hlVars>>

\* "drag": event.x, event.y are the subject's position moved by the pointer
Drag(i, delta) ==
    /\ Mounted
    /\ scene.dragging = i
    /\ i \in 1..Len(data.nodes)
    /\ LET n == data.nodes[i]
           ex == (IF scene.hasGexfLayout THEN NumVal(n.x) ELSE NumVal(n.fx)) + delta.dx
           ey == (IF scene.hasGexfLayout THEN NumVal(n.y) ELSE NumVal(n.fy)) + delta.dy
       IN  /\ InRange(ex) /\ InRange(ey)
           /\ IF scene.hasGexfLayout
              THEN /\ data' = [data EXCEPT !.nodes[i].x = Num(ex), !.nodes[i].y = Num(ey)]
                   /\ scene' = [scene EXCEPT !.lines = RenderLines(data'),
                                             !.circles = RenderCircles(data')]
              ELSE /\ data' = [data EXCEPT !.nodes[i].fx = Num(ex), !.nodes[i].fy = Num(ey)]
                   /\ UNCHANGED scene
           /\ last' = OpAt("drag", i, ex, ey)
    /\ UNCHANGED <<parseVars, clientWidth, loadVars, mode, citationType, activeFilters, winVars, hlVars>>

\* Released leaving the node pinned
StillPinned(d, i, hasGexfLayout) == d

\* line 336: the dataset after the "end" handler
Released(d, i, hasGexfLayout) ==
    IF hasGexfLayout THEN d
    ELSE [d EXCEPT !.nodes[i].fx = NullV, !.nodes[i].fy = NullV]

\* "end"
DragEnd(i) ==
    /\ Mounted
    /\ scene.dragging = i
    /\ i \in 1..Len(data.nodes)
    /\ data' = Released(data, i, scene.hasGexfLayout)
    /\ scene' = [scene EXCEPT !.dragging = 0,
                              !.alphaTarget = IF scene.simulation THEN 0 ELSE @]
    /\ last' = OpAt("dragEnd", i, 0, 0)
    /\ UNCHANGED <<parseVars, clientWidth, loadVars, mode, citationType, activeFilters, winVars, hlVars>>

-----------------------------------------------------------------------------
(* Parse harness: parseGexf applied to every document of Texts *)

Options == {[coauthorship |-> TRUE, citation |-> FALSE],
            [coauthorship |-> FALSE, citation |-> TRUE]}

InitParse ==
    /\ doc \in Texts
    /\ result = NotParsed
    /\ LoadAtRest /\ ViewAtRest /\ WinAtRest /\ ContainerAtRest /\ HlAtRest
    /\ last = Op("init")

Parse ==
    /\ result = NotParsed
    /\ \E options \in Options :
        /\ result' = ParseGexf(doc, options)
        /\ last' = OpAt("parseGexf", IF options.citation THEN 2 ELSE 1, 0, 0)
    /\ UNCHANGED <<doc, clientWidth, loadVars, viewVars, winVars, hlVars>>

NextParse == Parse

SpecParse == InitParse /\ [][NextParse]_vars

-----------------------------------------------------------------------------
(* Claims about parseGexf *)

Parsed == last.op = "parseGexf"

\* An edge element names a node of the returned list at both ends; an absent
\* or empty attribute names nothing.
NamesReturnedNodes(e) ==
    /\ e.source # NoAttr /\ e.source # ""
    /\ e.target # NoAttr /\ e.target # ""
    /\ \E n \in SeqToSet(result.nodes) : n.id = e.source
    /\ \E n \in SeqToSet(result.nodes) : n.id = e.target

KeptEdgeIdx ==
    SelectIdx(doc.edges, [i \in 1..Len(doc.edges) |-> NamesReturnedNodes(doc.edges[i])], 1)

\* C2: parseGexf returns, in document order, exactly the edges whose source and
\* target both name a parsed node (an absent or empty attribute is a missing
\* endpoint); each returned edge refers to objects of the returned node list,
\* its weight is the weight attribute or 1 without one; every other edge is
\* left out and no error is raised.
C2_EdgesResolved ==
    (Parsed /\ doc.wellFormed /\ doc.graph) =>
        /\ result.ok
        /\ Len(result.links) = Len(KeptEdgeIdx)
        /\ \A j \in 1..Len(result.links) :
            LET e == doc.edges[KeptEdgeIdx[j]]
                l == result.links[j]
            IN  /\ l.source.k = "ref" /\ l.source.i \in 1..Len(result.nodes)
                /\ result.nodes[l.source.i].id = e.source
                /\ l.target.k = "ref" /\ l.target.i \in 1..Len(result.nodes)
                /\ result.nodes[l.target.i].id = e.target
                /\ l.value = IF e.weight = NoAttr THEN Num(1) ELSE ParseFloat(e.weight)

\* the scenario: three nodes, A->B with weight 2 kept, A->Z dropped
C2_Witness ==
    /\ Parsed /\ result.ok
    /\ Len(result.nodes) = 3
    /\ doc.edges = <<[source |-> "A", target |-> "B", weight |-> "2"],
                     [source |-> "A", target |-> "Z", weight |-> NoAttr]>>
    /\ Len(result.links) = 1
    /\ result.links[1].value = Num(2)

\* C8: text that is not well-formed fails with the parse error that carries the
\* XML diagnostic; well-formed text without the graph element fails with the
\* structural error, a different one; every other text returns a NetworkData.
\* Text that is not well-formed has no graph element either, and gets the parse
\* error: the well-formedness test comes first.
C8_ParseOutcomes ==
    Parsed =>
        /\ ~doc.wellFormed =>
              (~result.ok /\ result.error = "GEXF parse error: " \o doc.diag)
        /\ (doc.wellFormed /\ ~doc.graph) =>
              (~result.ok /\ result.error = "GEXF: missing graph")
        /\ (doc.wellFormed /\ doc.graph) => result.ok

C8_Witness ==
    /\ Parsed /\ ~doc.wellFormed
    /\ result.error = "GEXF parse error: error on line 1"

-----------------------------------------------------------------------------
(* Networks the data context can hold after a load *)

GexfEl(id, x, y) == [id |-> id, label |-> NoAttr, pos |-> Pos(x, y), color |-> NoColor, d3 |-> NoAttr]
GexfText(ns, es) == [wellFormed |-> TRUE, diag |-> "", graph |-> TRUE, nodes |-> ns, edges |-> es]
NetOf(r) == [nodes |-> r.nodes, links |-> r.links]
SocialOptions == [coauthorship |-> TRUE, citation |-> FALSE]

\* parseGexf of a file with positions: A at (0,0), B at (10,0), one edge A-B
LaidOutText ==
    GexfText(<<GexfEl("A", "0", "0"), GexfEl("B", "10", "0")>>,
             <<[source |-> "A", target |-> "B", weight |-> NoAttr]>>)
GexfLaidOut == NetOf(ParseGexf(LaidOutText, SocialOptions))
\* the same file with an unreadable y on B
GexfBadY ==
    NetOf(ParseGexf(GexfText(<<GexfEl("A", "0", "0"), GexfEl("B", "10", "abc")>>,
                             <<[source |-> "A", target |-> "B", weight |-> NoAttr]>>),
                    SocialOptions))
\* JSON network files: links by id; JsonDangling has an edge to an id without a
\* node; JsonPaperXY holds two papers of one domain, with coordinates
JsonSocial ==
    [nodes |-> <<GraphNode("A", "unknown", "author", Undef, Undef),
                 GraphNode("B", "unknown", "author", Undef, Undef)>>,
     links |-> <<Link(IdEnd("A"), IdEnd("B"))>>]
JsonDangling ==
    [nodes |-> <<GraphNode("A", "unknown", "author", Undef, Undef)>>,
     links |-> <<Link(IdEnd("A"), IdEnd("Z"))>>]
JsonPaperXY ==
    [nodes |-> <<GraphNode("P1", "MAN", "paper", Num(0), Num(0)),
                 GraphNode("P2", "MAN", "paper", Num(10), Num(0))>>,
     links |-> <<Link(IdEnd("P1"), IdEnd("P2"))>>]

Ctx(social, paper) == [RestCtx EXCEPT !.social = social, !.paper = paper]

\* the Community view mounted over context c
InitCommunityIn(c, width) ==
    /\ ParseAtRest
    /\ clientWidth = width
    /\ ctx = c /\ load = RestLoad
    /\ mode = "SOCIAL" /\ citationType = "AUTHOR" /\ activeFilters = <<>>
    /\ LET r == RunEffect(ComputeData("SOCIAL", "AUTHOR", <<>>, c))
       IN  /\ data = r.data /\ scene = Install(RestScene, r.scene)
           /\ styles = ApplyHighlight(r.data, "", NoAttr, NoLink, <<>>)
    /\ WinAtRest
    /\ searchTerm = "" /\ hoverNode = NoAttr /\ hoverLink = NoLink
    /\ last = Op("init")

InitCommunity(c) == InitCommunityIn(c, ClientWidth)

CitationTypes == {"AUTHOR", "PAPER"}

SwitchMode ==
    \/ SetModeSocial
    \/ SetModeCitation
    \/ \E ct \in CitationTypes : SetCitationType(ct)

-----------------------------------------------------------------------------
(* The floating windows *)

InitWin == InitCommunity(Ctx(GexfLaidOut, MockCitationPaper))

NextWin ==
    \/ \E i \in 1..MaxNodes, sx \in AnchorXs, sy \in AnchorYs : NodeClick(i, sx, sy)
    \/ \E k \in 1..MaxNodes : CloseWindow(k)
    \/ \E k \in 1..MaxNodes, cx \in PointerXs, cy \in PointerYs : MouseDown(k, cx, cy)
    \/ \E cx \in PointerXs, cy \in PointerYs : MouseMove(cx, cy)
    \/ MouseUp
    \/ SwitchMode

SpecWin == InitWin /\ [][NextWin]_vars

\* C3: no two open windows have the same entity id, whatever sequence of
\* open, close, bring-to-front, window drag and mode switch led here.
C3_UniqueWindowIds ==
    \A j, k \in 1..Len(windows) : j # k => windows[j].id # windows[k].id

\* a node clicked while its window was open, next to another window
C3_Witness ==
    /\ last.op = "addWindowExisting"
    /\ Len(windows) = 2

\* C4: opening an id that is already open keeps the number of windows and
\* every window's x and y, gives that window the z-index nextZIndex + 1,
\* leaves every other z-index alone and raises nextZIndex by one.
C4_ReopenOnlyRaises ==
    [][last'.op = "addWindowExisting" =>
         /\ Len(windows') = Len(windows)
         /\ nextZIndex' = nextZIndex + 1
         /\ \A k \in 1..Len(windows) :
              /\ windows'[k].id = windows[k].id
              /\ windows'[k].x = windows[k].x
              /\ windows'[k].y = windows[k].y
              /\ windows'[k].zIndex = IF windows[k].id = data.nodes[last'.i].id
                                      THEN nextZIndex + 1
                                      ELSE windows[k].zIndex
         /\ UNCHANGED <<draggingId, dragOffset>>]_vars

\* a re-opened window below which another window kept its z-index
C4_Witness ==
    /\ last.op = "addWindowExisting"
    /\ Len(windows) = 2
    /\ windows[1].zIndex = 13
    /\ windows[2].zIndex = 12

\* C10: a click on a mode or citation scope button leaves no window open, and
\* every open window was opened under the mode and scope now shown.
C10_WindowsOfCurrentMode ==
    /\ last.op \in {"setModeSocial", "setModeCitation", "setCitationType"} => windows = <<>>
    /\ Len(openedUnder) = Len(windows)
    /\ \A k \in 1..Len(windows) : openedUnder[k] = <<mode, citationType>>

\* the scope switched while two windows were open
C10_Witness ==
    /\ last.op = "setCitationType"
    /\ last.i = 2
    /\ citationType = "PAPER"

-----------------------------------------------------------------------------
(* The domain filter *)

InitFilter == InitCommunity(Ctx(GexfLaidOut, JsonPaperXY))

NextFilter ==
    \/ SwitchMode
    \/ \E d \in 1..NumDomains : ToggleDomain(d)
    \/ \E d \in 1..NumDomains, a \in 1..NumSubAreas : ToggleSubdomain(d, a)
    \/ \E index \in 1..MaxFilters : RemoveFilterTag(index)

SpecFilter == InitFilter /\ [][NextFilter]_vars

HasSubdomainOf(fs, domainId) ==
    \E i \in 1..Len(fs) : fs[i].type = "subdomain" /\ fs[i].domainId = domainId

\* C6: a step that removes a domain filter, by the checkbox of the dropdown or
\* by the remove button of its tag, leaves no subdomain filter of that domain.
C6_DomainRemovalCascades ==
    [][\A d \in 1..Len(DomainsList) :
          (/\ IsDomainSelected(activeFilters, DomainsList[d].id)
           /\ ~IsDomainSelected(activeFilters', DomainsList[d].id))
          => ~HasSubdomainOf(activeFilters', DomainsList[d].id)]_vars

-----------------------------------------------------------------------------
(* The scene: layout choice and node drag *)

SocialNets == {GexfLaidOut, GexfBadY, JsonSocial, JsonDangling, MockSocial}
PaperNets == {JsonPaperXY, MockCitationPaper}

InitScene == \E s \in SocialNets, p \in PaperNets : InitCommunity(Ctx(s, p))

NextScene ==
    \/ \E i \in 1..MaxNodes : DragStart(i)
    \/ \E i \in 1..MaxNodes, delta \in DragDeltas : Drag(i, delta)
    \/ \E i \in 1..MaxNodes : DragEnd(i)
    \/ SwitchMode
    \/ \E d \in 1..NumDomains : ToggleDomain(d)

SpecScene == InitScene /\ [][NextScene]_vars

\* C1: once the effect has run, both ends of every edge of the dataset are
\* objects of the dataset's own node list.
C1_EndpointsAreMembers ==
    scene.built =>
        \A j \in 1..Len(data.links) :
            /\ data.links[j].source.k = "ref" /\ data.links[j].source.i \in 1..Len(data.nodes)
            /\ data.links[j].target.k = "ref" /\ data.links[j].target.i \in 1..Len(data.nodes)

AllNumeric(coords) ==
    \A i \in 1..Len(coords) : coords[i].x.t = "num" /\ coords[i].y.t = "num"

\* C5 as stated: the file's layout is used, and no simulation started, exactly
\* when every node of the dataset came with a numeric x and a numeric y.
C5_AuthoritativeIffAllNumeric ==
    scene.built =>
        /\ scene.hasGexfLayout = ~scene.simulation
        /\ scene.hasGexfLayout = AllNumeric(scene.input)

\* C5: the file's layout is used, and no simulation started, exactly when the
\* dataset has at least one node and every node came with a numeric x and a
\* numeric y; a dataset without nodes starts a simulation.
C5_AuthoritativeIffNonEmptyAllNumeric ==
    scene.built =>
        /\ scene.hasGexfLayout = ~scene.simulation
        /\ scene.hasGexfLayout = (Len(scene.input) > 0 /\ AllNumeric(scene.input))

\* the filter has emptied a paper network and a simulation runs on no nodes
C5_Witness ==
    /\ last.op = "toggleDomain"
    /\ Len(scene.input) = 0
    /\ scene.simulation
    /\ ~scene.hasGexfLayout

\* the id of the node an endpoint stands for
EndId(e) == IF e.k = "ref" THEN data.nodes[e.i].id ELSE e.id

\* C7: a drag event under the file's layout puts the node and its circle at the
\* event position, and every line of an edge at that node ends there, in the
\* same step.
C7_DragMovesNodeAndEdges ==
    (last.op = "drag" /\ scene.hasGexfLayout) =>
        LET i == last.i
            id == data.nodes[i].id
        IN  /\ data.nodes[i].x = Num(last.x) /\ data.nodes[i].y = Num(last.y)
            /\ scene.circles[i] = [cx |-> Num(last.x), cy |-> Num(last.y)]
            /\ \A j \in 1..Len(data.links) :
                 /\ EndId(data.links[j].source) = id =>
                      (scene.lines[j].x1 = Num(last.x) /\ scene.lines[j].y1 = Num(last.y))
                 /\ EndId(data.links[j].target) = id =>
                      (scene.lines[j].x2 = Num(last.x) /\ scene.lines[j].y2 = Num(last.y))

-----------------------------------------------------------------------------
(* DataContext: loadFromPublic (lines 355-483).  What a fetch gives is an input:
   the request is rejected, the response is not ok, or the response is ok and
   carries a body. *)

CitationOptions == [coauthorship |-> FALSE, citation |-> TRUE]
\* a well-formed GEXF file with a graph and no node
EmptyGraphText == GexfText(<<>>, <<>>)

GexfFetches ==
    {[k |-> "reject", text |-> MalformedText], [k |-> "notOk", text |-> MalformedText]}
    \cup {[k |-> "ok", text |-> t] : t \in {MalformedText, NoGraphText, EmptyGraphText, LaidOutText}}
\* "badJson": the body is not JSON and res.json() rejects
JsonFetches ==
    {[k |-> kk, net |-> EmptyNet] : kk \in {"reject", "notOk", "badJson"}}
    \cup {[k |-> "ok", net |-> n] : n \in {JsonSocial, JsonDangling}}

\* the message on display while the step at pc awaits its fetches (lines 357,
\* 378-393, 401, 423, 432, 454); nothing sets one between the last fetch and
\* line 475
MessageAt(pc) ==
    CASE pc = "prelude" -> "Loading models... (1 of 8)"
      [] pc = "social" -> "Loading co-authorship network... (5 of 8)"
      [] pc = "mixed" -> "Loading citation network... (6 of 8)"
      [] pc = "paper" -> "Loading paper citations... (7 of 8)"
      [] OTHER -> "Loading author citations... (8 of 8)"

\* catch without the finally block
CaughtOnly(l) ==
    [l EXCEPT !.pc = "done", !.failed = TRUE, !.loadingMessage = "Error loading data"]

\* catch (lines 476-478) and finally (lines 479-482)
Caught(l) ==
    [l EXCEPT !.pc = "done", !.failed = TRUE, !.isDataLoading = FALSE, !.loadingMessage = ""]

\* lines 355-359 and the effect that calls loadFromPublic on mount
StartLoad ==
    /\ load.pc = "idle"
    /\ load' = [load EXCEPT !.pc = "prelude", !.isDataLoading = TRUE, !.anyLoaded = FALSE,
                            !.loadingMessage = MessageAt("prelude")]
    /\ last' = Op("loadFromPublic")
    /\ UNCHANGED <<parseVars, clientWidth, ctx, viewVars, winVars, hlVars>>

\* lines 361-398: models, publication trends, authors, domains
Prelude(outcome) ==
    /\ load.pc = "prelude"
    /\ load' = IF outcome = "reject" THEN Caught(load)
               ELSE [load EXCEPT !.pc = "social", !.loadingMessage = MessageAt("social"),
                                 !.anyLoaded = @ \/ outcome = "ok"]
    /\ last' = Op("prelude")
    /\ UNCHANGED <<parseVars, clientWidth, ctx, viewVars, winVars, hlVars>>

\* the JSON file of network key (lines 413-419, 424-429, 444-450, 466-472)
LoadJson(key, next, g, j) ==
    /\ load' = IF j.k \in {"reject", "badJson"}
               THEN [Caught(load) EXCEPT !.seen[key] = [gexf |-> g, json |-> j.k]]
               ELSE [load EXCEPT !.pc = next, !.loadingMessage = MessageAt(next),
                                 !.anyLoaded = @ \/ j.k = "ok",
                                 !.seen[key] = [gexf |-> g, json |-> j.k]]
    /\ ctx' = IF j.k = "ok"
              THEN [ctx EXCEPT ![key] = j.net, !.source[key] = FALSE]
              ELSE ctx

\* GEXF first, then JSON (lines 400-420, 431-451, 453-473)
LoadGexfThenJson(key, next, options, g, j) ==
    IF g.k = "reject"
    THEN /\ load' = [Caught(load) EXCEPT !.seen[key] = [gexf |-> "reject", json |-> NotFetched]]
         /\ ctx' = ctx
    ELSE IF g.k = "ok" /\ ParseGexf(g.text, options).ok
    THEN /\ load' = [load EXCEPT !.pc = next, !.anyLoaded = TRUE,
                                 !.loadingMessage = MessageAt(next),
                                 !.seen[key] = [gexf |-> "parsed", json |-> NotFetched]]
         /\ ctx' = [ctx EXCEPT ![key] = NetOf(ParseGexf(g.text, options)),
                               !.source[key] = TRUE]
    ELSE LoadJson(key, next, IF g.k = "ok" THEN "threw" ELSE "notOk", j)

LoadSocial(g, j) ==
    /\ load.pc = "social"
    /\ LoadGexfThenJson("social", "mixed", SocialOptions, g, j)
    /\ last' = Op("loadSocial")
    /\ UNCHANGED <<parseVars, clientWidth, viewVars, winVars, hlVars>>

LoadMixed(j) ==
    /\ load.pc = "mixed"
    /\ LoadJson("mixed", "paper", NotFetched, j)
    /\ last' = Op("loadMixed")
    /\ UNCHANGED <<parseVars, clientWidth, viewVars, winVars, hlVars>>

LoadPaper(g, j) ==
    /\ load.pc = "paper"
    /\ LoadGexfThenJson("paper", "author", CitationOptions, g, j)
    /\ last' = Op("loadPaper")
    /\ UNCHANGED <<parseVars, clientWidth, viewVars, winVars, hlVars>>

LoadAuthor(g, j) ==
    /\ load.pc = "author"
    /\ LoadGexfThenJson("author", "finish", CitationOptions, g, j)
    /\ last' = Op("loadAuthor")
    /\ UNCHANGED <<parseVars, clientWidth, viewVars, winVars, hlVars>>

\* line 475 and finally
FinishLoad ==
    /\ load.pc = "finish"
    /\ load' = [load EXCEPT !.pc = "done", !.isDataLoading = FALSE, !.loadingMessage = "",
                            !.label = IF load.anyLoaded THEN "Built-in data (/data)" ELSE @]
    /\ last' = Op("finishLoad")
    /\ UNCHANGED <<parseVars, clientWidth, ctx, viewVars, winVars, hlVars>>

InitLoad ==
    /\ ParseAtRest
    /\ ctx = RestCtx /\ load = RestLoad
    /\ ViewAtRest /\ WinAtRest /\ ContainerAtRest /\ HlAtRest
    /\ last = Op("init")

NextLoad ==
    \/ StartLoad
    \/ \E outcome \in {"ok", "notOk", "reject"} : Prelude(outcome)
    \/ \E g \in GexfFetches, j \in JsonFetches : LoadSocial(g, j)
    \/ \E j \in JsonFetches : LoadMixed(j)
    \/ \E g \in GexfFetches, j \in JsonFetches : LoadPaper(g, j)
    \/ \E g \in GexfFetches, j \in JsonFetches : LoadAuthor(g, j)
    \/ FinishLoad

SpecLoad == InitLoad /\ [][NextLoad]_vars

\* every edge of the network names, at both ends, a node of the network
StructurallyValid(net) ==
    \A j \in 1..Len(net.links) :
        LET ends == {net.links[j].source, net.links[j].target}
        IN  \A e \in ends :
              \/ e.k = "ref" /\ e.i \in 1..Len(net.nodes)
              \/ e.k = "id" /\ \E i \in 1..Len(net.nodes) : net.nodes[i].id = e.id

NetworkKey(m, ct) ==
    IF m = "SOCIAL" THEN "social" ELSE IF ct = "PAPER" THEN "paper" ELSE "author"

\* C9: when loadFromPublic has ended, no failure has left it, and for every
\* mode and scope the network the Community view selects is structurally valid
\* and is the parsed GEXF if the GEXF parsed, else the JSON file if that was
\* read, else the network held before the load (the bundled sample).
C9_RenderedNetworkValid ==
    load.pc = "done" =>
        /\ ~load.escaped
        /\ \A m \in {"SOCIAL", "CITATION"}, ct \in CitationTypes :
             LET key == NetworkKey(m, ct)
                 shown == BaseNetwork(m, ct, ctx)
             IN  /\ StructurallyValid(shown)
                 /\ load.seen[key].gexf = "parsed" => shown = ctx[key]
                 /\ (load.seen[key].gexf # "parsed" /\ load.seen[key].json = "ok")
                       => shown = ctx[key]
                 /\ (load.seen[key].gexf # "parsed" /\ load.seen[key].json # "ok")
                       => shown = RestCtx[key]

-----------------------------------------------------------------------------
(* Search and hover *)

SearchTerms == {"", "bo", "AL", "x"}

\* lines 549: the search box
SetSearchTerm(t) ==
    /\ Mounted
    /\ searchTerm' = t
    /\ last' = Op("setSearchTerm")
    /\ UNCHANGED <<parseVars, clientWidth, loadVars, viewVars, winVars, hoverNode, hoverLink>>
    /\ Restyle(t # searchTerm, FALSE)

\* the pointer is over no node and no link
PointerFree == hoverNode = NoAttr /\ hoverLink = NoLink

\* lines 341-342: mouseover on the circle of node i
NodeOver(i) ==
    /\ Mounted
    /\ PointerFree
    /\ i \in 1..Len(data.nodes)
    /\ hoverNode' = data.nodes[i].id
    /\ last' = OpAt("nodeOver", i, 0, 0)
    /\ UNCHANGED <<parseVars, clientWidth, loadVars, viewVars, winVars, searchTerm, hoverLink>>
    /\ Restyle(TRUE, FALSE)

\* lines 404-407: mouseout of a circle
NodeOut ==
    /\ Mounted
    /\ hoverNode # NoAttr
    /\ hoverNode' = NoAttr
    /\ last' = Op("nodeOut")
    /\ UNCHANGED <<parseVars, clientWidth, loadVars, viewVars, winVars, searchTerm, hoverLink>>
    /\ Restyle(TRUE, FALSE)

\* lines 262-263: mouseover on the hit line of link j
LinkOver(j) ==
    /\ Mounted
    /\ PointerFree
    /\ j \in 1..Len(data.links)
    /\ hoverLink' = HoveredLink(data, j)
    /\ last' = OpAt("linkOver", j, 0, 0)
    /\ UNCHANGED <<parseVars, clientWidth, loadVars, viewVars, winVars, searchTerm, hoverNode>>
    /\ Restyle(TRUE, FALSE)

\* lines 296-299: mouseout of a hit line
LinkOut ==
    /\ Mounted
    /\ hoverLink # NoLink
    /\ hoverLink' = NoLink
    /\ last' = Op("linkOut")
    /\ UNCHANGED <<parseVars, clientWidth, loadVars, viewVars, winVars, searchTerm, hoverNode>>
    /\ Restyle(TRUE, FALSE)

LabelledNode(id, label, fullLabel, x, y) ==
    [GraphNode(id, "unknown", "author", x, y) EXCEPT !.label = label, !.fullLabel = fullLabel]

\* JSON networks of three authors, A-B linked, C apart; without and with coordinates
JsonLabelled ==
    [nodes |-> <<LabelledNode("A", "Al", "Al Bo", Undef, Undef),
                 LabelledNode("B", "Bo", "Bo", Undef, Undef),
                 LabelledNode("C", "Cy", "Cy", Undef, Undef)>>,
     links |-> <<Link(IdEnd("A"), IdEnd("B"))>>]
JsonLabelledXY ==
    [nodes |-> <<LabelledNode("A", "Al", "Al Bo", Num(0), Num(0)),
                 LabelledNode("B", "Bo", "Bo", Num(10), Num(0)),
                 LabelledNode("C", "Cy", "Cy", Num(0), Num(10))>>,
     links |-> <<Link(IdEnd("A"), IdEnd("B"))>>]

InitHighlight ==
    \E s \in {JsonLabelled, JsonLabelledXY} : InitCommunity(Ctx(s, MockCitationPaper))

NextHighlight ==
    \/ \E t \in SearchTerms : SetSearchTerm(t)
    \/ \E i \in 1..MaxNodes : NodeOver(i)
    \/ NodeOut
    \/ \E j \in 1..MaxEdges : LinkOver(j)
    \/ LinkOut
    \/ \E i \in 1..MaxNodes : NodeClick(i, 0, 0)
    \/ \E k \in 1..MaxNodes : CloseWindow(k)

SpecHighlight == InitHighlight /\ [][NextHighlight]_vars

\* the term occurs in the text, letter case aside
OccursIn(term, text) ==
    LET t == ToLowerCase(Chars(term))
        cs == ToLowerCase(Chars(text))
    IN  \E a \in 1..(Len(cs) + 1), b \in 0..Len(cs) : SubSeq(cs, a, b) = t

\* C11: after the highlight rules ran with a non-empty search term, a circle
\* has full opacity when the term occurs in the node's label or in its full
\* label, letter case aside, and opacity 0.1 otherwise, whatever is hovered and
\* whatever windows are open.
C11_SearchDecidesOpacity ==
    (styles.applied /\ searchTerm # "") =>
        \A i \in 1..Len(data.nodes) :
            styles.nodes[i].opacity =
                IF \/ OccursIn(searchTerm, data.nodes[i].label)
                   \/ OccursIn(searchTerm, data.nodes[i].fullLabel)
                THEN 10 ELSE 1

\* "bo" occurs in the full label of A alone of its two labels; C is hovered
\* and has a window, and is dimmed
C11_Witness ==
    /\ styles.applied /\ searchTerm = "bo"
    /\ hoverNode = "C"
    /\ HasWindow(windows, "C")
    /\ styles.nodes[1].opacity = 10
    /\ styles.nodes[3].opacity = 1

\* the ids of the two ends of link j, whatever form the ends have
LinkIds(j) ==
    {IF e.k = "ref" THEN data.nodes[e.i].id ELSE e.id :
        e \in {data.links[j].source, data.links[j].target}}

Neighbours(id) ==
    {n \in UNION {LinkIds(j) : j \in 1..Len(data.links)} :
        \E j \in 1..Len(data.links) : {id, n} \subseteq LinkIds(j) /\ n # id}

\* C12: after the highlight rules ran with no search term while a node or a
\* link is hovered, a node is dimmed exactly when it is neither the hovered
\* node, nor a neighbour of it, nor an end of the hovered link; a link is dimmed
\* exactly when it is neither the hovered link nor a link at the hovered node.
C12_HoverDimsNonAdjacent ==
    (styles.applied /\ searchTerm = "" /\ ~PointerFree /\ (hoverLink = NoLink \/ hoverLink.j > 0)) =>
        /\ \A i \in 1..Len(data.nodes) :
             LET id == data.nodes[i].id
                 near == \/ id = hoverNode
                         \/ hoverNode # NoAttr /\ id \in Neighbours(hoverNode)
                         \/ hoverLink # NoLink /\ id \in LinkIds(hoverLink.j)
             IN  (styles.nodes[i].opacity < 10) = ~near
        /\ \A j \in 1..Len(data.links) :
             LET near == \/ hoverLink # NoLink /\ hoverLink.j = j
                         \/ hoverNode # NoAttr /\ hoverNode \in LinkIds(j)
             IN  (styles.links[j].opacity < 10) = ~near


\* ---------------------------------------------------------------------------
\* Node colours: the same colour written as a hex string and as r, g, b
\* ---------------------------------------------------------------------------

ChannelValues == {0, 15, 16, 255}
ChannelAttr(v) == CASE v = 0 -> "0" [] v = 15 -> "15" [] v = 16 -> "16" [] OTHER -> "255"

LowerDigits == {"0", "1", "2", "3", "4", "5", "6", "7", "8", "9", "a", "b", "c", "d", "e", "f"}
UpperChar(ch) ==
    CASE ch = "a" -> "A" [] ch = "b" -> "B" [] ch = "c" -> "C"
      [] ch = "d" -> "D" [] ch = "e" -> "E" [] ch = "f" -> "F" [] OTHER -> ch

\* the spellings of a colour as a hex attribute: rrggbb, RRGGBB and #rrggbb
Spellings == {"lower", "upper", "hash"}
HexPair(v, sp) ==
    IF sp = "upper" THEN <<UpperChar(HexDigit(v \div 16)), UpperChar(HexDigit(v % 16))>>
    ELSE <<HexDigit(v \div 16), HexDigit(v % 16)>>
HexSpelling(r, g, b, sp) ==
    (IF sp = "hash" THEN <<"#">> ELSE <<>>) \o HexPair(r, sp) \o HexPair(g, sp) \o HexPair(b, sp)

HexColorEl(r, g, b, sp) ==
    [present |-> TRUE, hex |-> [present |-> TRUE, chars |-> HexSpelling(r, g, b, sp)],
     r |-> NoAttr, g |-> NoAttr, b |-> NoAttr]
RgbColorEl(r, g, b) ==
    [present |-> TRUE, hex |-> NoHex, r |-> ChannelAttr(r), g |-> ChannelAttr(g), b |-> ChannelAttr(b)]

\* a document of two nodes: "A" carries the colour as hex, "B" as r, g, b
ColourText(r, g, b, sp) ==
    GexfText(<<[id |-> "A", label |-> NoAttr, pos |-> NoPos, color |-> HexColorEl(r, g, b, sp), d3 |-> NoAttr],
               [id |-> "B", label |-> NoAttr, pos |-> NoPos, color |-> RgbColorEl(r, g, b), d3 |-> NoAttr]>>, <<>>)
ColourTexts ==
    {ColourText(r, g, b, sp) : r \in ChannelValues, g \in ChannelValues, b \in ChannelValues,
                               sp \in Spellings}

InitColour ==
    /\ doc \in ColourTexts
    /\ result = NotParsed
    /\ last = Op("init")
    /\ LoadAtRest /\ ViewAtRest /\ WinAtRest /\ ContainerAtRest /\ HlAtRest

SpecColour == InitColour /\ [][NextParse]_vars

ParsedColours == result.ok /\ Len(result.nodes) = 2
HexIsLowerCase ==
    \A k \in 1..Len(doc.nodes[1].color.hex.chars) :
        doc.nodes[1].color.hex.chars[k] \in LowerDigits \cup {"#"}

TypeAttrs == {NoAttr, "source", "citing", "cited", "paper"}
TypeIds == <<"A", "B", "C", "D", "E">>
TypedEl(k, t) == [id |-> TypeIds[k], label |-> NoAttr, pos |-> NoPos, color |-> NoColor, d3 |-> t]
TypeTexts ==
    {GexfText([k \in 1..5 |-> TypedEl(k, f[k])], <<>>) : f \in [1..5 -> TypeAttrs]}

InitType ==
    /\ doc \in TypeTexts
    /\ result = NotParsed
    /\ last = Op("init")
    /\ LoadAtRest /\ ViewAtRest /\ WinAtRest /\ ContainerAtRest /\ HlAtRest

SpecType == InitType /\ [][NextParse]_vars

ParsedAsCoauthorship == Parsed /\ last.i = 1
ParsedAsCitation == Parsed /\ last.i = 2

\* C14: in co-authorship mode every node is an author; in citation mode the
\* node type depends on the node's type attribute: a node without the attribute
\* is an author, and among nodes carrying every value of the attribute at
\* least one is classified as a paper
C14_TypeDependsOnAttribute ==
    /\ ParsedAsCoauthorship =>
          \A k \in 1..Len(result.nodes) : result.nodes[k].nodeType = "author"
    /\ ParsedAsCitation =>
          /\ \A k \in 1..Len(result.nodes) :
                doc.nodes[k].d3 = NoAttr => result.nodes[k].nodeType = "author"
          /\ {doc.nodes[k].d3 : k \in 1..Len(doc.nodes)} = TypeAttrs =>
                \E k \in 1..Len(result.nodes) : result.nodes[k].nodeType = "paper"


\* ---------------------------------------------------------------------------
\* Claims about the stacking of the floating windows
\* ---------------------------------------------------------------------------

\* C15: bringToFront(id) keeps the list of windows and every window's id, x and
\* y, gives window id the z-index nextZIndex + 1, leaves every other z-index
\* alone and raises nextZIndex by one; for an id without a window the list it
\* returns is the list it was given.
C15_BringToFrontOnlyRaises ==
    /\ [](\A i \in 1..Len(data.nodes) :
            ~HasWindow(windows, data.nodes[i].id) =>
                BringToFront(windows, data.nodes[i].id, nextZIndex) = windows)
    /\ [][last'.op = "mouseDown" =>
            /\ Len(windows') = Len(windows)
            /\ nextZIndex' = nextZIndex + 1
            /\ \A k \in 1..Len(windows) :
                 /\ windows'[k].id = windows[k].id
                 /\ windows'[k].x = windows[k].x
                 /\ windows'[k].y = windows[k].y
                 /\ windows'[k].zIndex = IF k = last'.i THEN nextZIndex + 1
                                         ELSE windows[k].zIndex]_vars

\* the first of two windows raised above the second, which keeps its place
C15_Witness ==
    /\ last.op = "mouseDown" /\ last.i = 1
    /\ Len(windows) = 2
    /\ windows[1].zIndex = nextZIndex
    /\ windows[2].zIndex = 12
    /\ windows[2].x # windows[1].x

\* the window an open or a bring-to-front acted on
TouchedWindow ==
    IF last.op = "mouseDown" THEN windows[last.i].id ELSE data.nodes[last.i].id

\* C16: after an open or a bring-to-front the window acted on has a z-index
\* above every other window's; no two windows share a z-index; nextZIndex never
\* decreases, whatever the operation.
C16_StackingOrder ==
    /\ [](/\ \A j, k \in 1..Len(windows) : j # k => windows[j].zIndex # windows[k].zIndex
          /\ last.op \in {"addWindow", "addWindowExisting", "mouseDown"} =>
                \A j, k \in 1..Len(windows) :
                    (windows[j].id = TouchedWindow /\ k # j) =>
                        windows[j].zIndex > windows[k].zIndex)
    /\ [][nextZIndex' >= nextZIndex]_vars

\* the older of two windows brought to the front of the newer one
C16_Witness ==
    /\ last.op = "mouseDown" /\ last.i = 1
    /\ Len(windows) = 2
    /\ windows[1].zIndex = nextZIndex
    /\ windows[2].zIndex = nextZIndex - 1


\* ---------------------------------------------------------------------------
\* Placement of a new window in containers of several widths
\* ---------------------------------------------------------------------------

ClientWidths == {0, 250, 320, 800}
PlaceXs == {0, 250, 800}
PlaceYs == {0, 300, 600}

InitPlace ==
    \E width \in ClientWidths : InitCommunityIn(Ctx(GexfLaidOut, MockCitationPaper), width)

\* a click lands on a node drawn inside the container
NextPlace ==
    \/ \E i \in 1..MaxNodes, sx \in PlaceXs, sy \in PlaceYs :
          /\ sx <= EffectiveWidth
          /\ sy <= ContainerHeight
          /\ NodeClick(i, sx, sy)
    \/ \E k \in 1..MaxNodes : CloseWindow(k)

SpecPlace == InitPlace /\ [][NextPlace]_vars

\* C17: a window just opened has its x and y inside the container: neither
\* left of or above its origin nor beyond its width or height
C17_SpawnsInsideContainer ==
    (last.op = "addWindow" /\ clientWidth > 0) =>
        LET w == windows[Len(windows)]
        IN  /\ 0 <= w.x /\ w.x <= clientWidth
            /\ 0 <= w.y /\ w.y <= ContainerHeight


\* ---------------------------------------------------------------------------
\* The lifetime of a window under every operation of the view
\* ---------------------------------------------------------------------------

\* lines 65-112: a network of the data context is replaced while the view is
\* shown; the networks are dependencies of the data memo, so the dataset is
\* recomputed and the scene rebuilt
DataReload(key, net) ==
    /\ Mounted
    /\ ctx' = [ctx EXCEPT ![key] = net]
    /\ LET r == RunEffect(ComputeData(mode, citationType, activeFilters, ctx'))
       IN  data' = r.data /\ scene' = Install(scene, r.scene) /\ hoverLink' = Detached(hoverLink)
    /\ last' = Op("dataReload")
    /\ UNCHANGED <<parseVars, clientWidth, load, mode, citationType, activeFilters, winVars,
                   searchTerm, hoverNode>>
    /\ Restyle(FALSE, TRUE)

\* the view over a laid-out network after a click on node A and a click on
\* node B: two windows open
TwoWindowsOpen ==
    LET r0 == RunEffect(ComputeData("SOCIAL", "AUTHOR", <<>>, ctx))
        r1 == RunEffect(r0.data)
        r2 == RunEffect(r1.data)
    IN  /\ data = r2.data
        /\ scene = Install(Install(Install(RestScene, r0.scene), r1.scene), r2.scene)
        /\ windows = AddWindow(AddWindow(<<>>, "A", 0, 0, 10), "B", 0, 0, 11)
        /\ nextZIndex = 12
        /\ openedUnder = <<<<"SOCIAL", "AUTHOR">>, <<"SOCIAL", "AUTHOR">>>>
        /\ draggingId = NoAttr /\ dragOffset = [x |-> 0, y |-> 0]
        /\ styles = ApplyHighlight(r2.data, "", NoAttr, NoLink, windows)

InitOpen ==
    /\ ParseAtRest
    /\ clientWidth = ClientWidth
    /\ ctx = Ctx(GexfLaidOut, MockCitationPaper) /\ load = RestLoad
    /\ mode = "SOCIAL" /\ citationType = "AUTHOR" /\ activeFilters = <<>>
    /\ searchTerm = "" /\ hoverNode = NoAttr /\ hoverLink = NoLink
    /\ TwoWindowsOpen
    /\ last = OpAt("addWindow", 2, 0, 0)

NextOpen ==
    \/ NodeClick(1, 0, 0)
    \/ \E k \in 1..MaxNodes : CloseWindow(k)
    \/ \E k \in 1..MaxNodes : MouseDown(k, 100, 100)
    \/ MouseMove(130, 100)
    \/ MouseUp
    \/ SetModeSocial
    \/ SetModeCitation
    \/ SetCitationType("AUTHOR")
    \/ SetSearchTerm("a")
    \/ NodeOver(1)
    \/ NodeOut
    \/ ToggleDomain(1)
    \/ DragStart(1)
    \/ Drag(1, [dx |-> MaxCoord, dy |-> 0])
    \/ DragEnd(1)
    \/ DataReload("social", JsonSocial)

SpecOpen == InitOpen /\ [][NextOpen]_vars

WindowIds(ws) == {ws[k].id : k \in 1..Len(ws)}
ModeButtons == {"setModeSocial", "setModeCitation", "setCitationType"}

\* C18: a window stays open until it is closed or a mode or scope button is
\* clicked, whether or not the click changes the selection: closing a window
\* removes that window alone, a click on a mode or scope button removes every
\* window, opening a window removes none, and search, filter change, hover,
\* node drag, window drag, bring-to-front and data reload leave the windows
\* open.
C18_OpenUntilClosedOrButton ==
    [][/\ last'.op = "closeWindow" =>
            WindowIds(windows') = WindowIds(windows) \ {windows[last'.i].id}
       /\ last'.op \in ModeButtons => windows' = <<>>
       /\ last'.op = "addWindow" => WindowIds(windows) \subseteq WindowIds(windows')
       /\ last'.op \notin ModeButtons \cup {"closeWindow", "addWindow"} =>
            WindowIds(windows') = WindowIds(windows)]_vars

\* C18 as stated: a window is removed only by closing it or by a change of the
\* mode or of the scope; re-selecting the active mode or scope removes none.
C18_OpenUntilClosedOrModeChanged ==
    [][/\ last'.op = "closeWindow" =>
            WindowIds(windows') = WindowIds(windows) \ {windows[last'.i].id}
       /\ (last'.op # "closeWindow" /\ mode' = mode /\ citationType' = citationType) =>
            WindowIds(windows) \subseteq WindowIds(windows')]_vars

\* the active mode re-selected while two windows were open
C18_Witness ==
    /\ last.op = "setModeSocial" /\ last.x = 0 /\ last.i = 2
    /\ windows = <<>>


\* the state SpecOpen starts in, as SpecWin reaches it
OpenReached ==
    /\ ctx = Ctx(GexfLaidOut, MockCitationPaper)
    /\ mode = "SOCIAL" /\ citationType = "AUTHOR" /\ activeFilters = <<>>
    /\ searchTerm = "" /\ hoverNode = NoAttr /\ hoverLink = NoLink
    /\ TwoWindowsOpen
    /\ last = OpAt("addWindow", 2, 0, 0)


\* ---------------------------------------------------------------------------
\* Repeated node ids: documents whose node elements differ in label and place
\* ---------------------------------------------------------------------------

OccLabel(k) == CASE k = 1 -> "Al" [] k = 2 -> "Bo" [] k = 3 -> "Cy" [] OTHER -> "Di"
OccX(k) == CASE k = 1 -> "1" [] k = 2 -> "2" [] k = 3 -> "5" [] OTHER -> "10"

\* the k-th node element of a document, with id attribute a
OccEl(k, a) ==
    [id |-> a, label |-> OccLabel(k), pos |-> Pos(OccX(k), "0"), color |-> NoColor, d3 |-> NoAttr]
DupTexts ==
    UNION {{GexfText([k \in 1..n |-> OccEl(k, f[k])], <<>>) : f \in [1..n -> NodeIdAttrs]} :
           n \in 0..MaxNodes}

InitDup ==
    /\ doc \in DupTexts
    /\ result = NotParsed
    /\ last = Op("init")
    /\ LoadAtRest /\ ViewAtRest /\ WinAtRest /\ ContainerAtRest /\ HlAtRest

SpecDup == InitDup /\ [][NextParse]_vars

\* the id parseGexf reads from the k-th node element
IdOf(k) == Coalesce(doc.nodes[k].id, "")
\* the last node element carrying the id
LastOcc(id) ==
    CHOOSE k \in 1..Len(doc.nodes) :
        /\ IdOf(k) = id
        /\ \A j \in 1..Len(doc.nodes) : IdOf(j) = id => j <= k

\* C19: the nodes parseGexf returns have pairwise distinct ids, one node for
\* each id that occurs in the document (the empty id for elements without
\* one), and each node has the label and the position of the last element
\* carrying its id.
C19_DistinctIdsLastWins ==
    (Parsed /\ result.ok) =>
        /\ \A i, j \in 1..Len(result.nodes) :
              i # j => result.nodes[i].id # result.nodes[j].id
        /\ {result.nodes[i].id : i \in 1..Len(result.nodes)} =
              {IdOf(k) : k \in 1..Len(doc.nodes)}
        /\ \A i \in 1..Len(result.nodes) :
              LET k == LastOcc(result.nodes[i].id)
              IN  /\ result.nodes[i].label = OccLabel(k)
                  /\ result.nodes[i].x = ParseFloat(OccX(k))

\* ids A, B, A: two nodes, the first with the fields of the third element
C19_Witness ==
    /\ Parsed /\ result.ok
    /\ Len(doc.nodes) = 3
    /\ IdOf(1) = "A" /\ IdOf(2) = "B" /\ IdOf(3) = "A"
    /\ Len(result.nodes) = 2
    /\ result.nodes[1].id = "A" /\ result.nodes[1].label = "Cy"
    /\ result.nodes[1].x = Num(5)


\* ---------------------------------------------------------------------------
\* Claims about the effect's simulation and click listener
\* ---------------------------------------------------------------------------

\* C20: at most one simulation is not stopped and at most one 'node-clicked'
\* listener is registered; while the view is shown exactly one listener is
\* registered, and a simulation is running exactly when the layout is
\* simulated; a click on a node without a window opens exactly one window and
\* raises nextZIndex by one.
C20_OneSimulationOneListener ==
    /\ [](/\ scene.simulations <= 1
          /\ scene.listeners <= 1
          /\ Mounted => /\ scene.listeners = 1
                        /\ scene.simulations = IF scene.simulation THEN 1 ELSE 0)
    /\ [][last'.op = "addWindow" =>
            /\ Len(windows') = Len(windows) + 1
            /\ nextZIndex' = nextZIndex + 1]_vars

\* the mode switched from a simulated co-authorship network to a simulated
\* citation network
C20_Witness ==
    /\ last.op = "setModeCitation" /\ last.x = 1
    /\ ctx.social = JsonSocial
    /\ scene.simulation /\ scene.simulations = 1 /\ scene.listeners = 1


\* ---------------------------------------------------------------------------
\* The force simulation: ticks, convergence and node drag
\* ---------------------------------------------------------------------------

\* what one tick may add to the position of a free node
SimSteps == {[dx |-> 0, dy |-> 0], [dx |-> 20, dy |-> 0], [dx |-> 0 - 20, dy |-> 0]}

\* a pinned node: fx is neither null nor undefined
Pinned(n) == n.fx.t = "num"

\* d3 simulation tick: a node with fx, fy is put there, every other node is
\* moved by the forces; then the "tick" listener (line 427) draws the scene
Tick(step) ==
    /\ Mounted
    /\ scene.simulation /\ scene.running
    /\ \A i \in 1..Len(data.nodes) :
          ~Pinned(data.nodes[i]) => InRange(data.nodes[i].x.v + step[i].dx)
    /\ data' = [data EXCEPT !.nodes =
                  [i \in 1..Len(data.nodes) |->
                      IF Pinned(data.nodes[i])
                      THEN [data.nodes[i] EXCEPT !.x = data.nodes[i].fx,
                                                 !.y = data.nodes[i].fy]
                      ELSE [data.nodes[i] EXCEPT !.x = Num(@.v + step[i].dx),
                                                 !.y = Num(@.v + step[i].dy)]]]
    /\ scene' = [scene EXCEPT !.lines = RenderLines(data'), !.circles = RenderCircles(data')]
    /\ last' = Op("tick")
    /\ UNCHANGED <<parseVars, clientWidth, loadVars, mode, citationType, activeFilters, winVars, hlVars>>

\* alpha has decayed below alphaMin, which it can only with alphaTarget 0: the
\* timer stops and the "end" listener (lines 429-440) runs; its call of
\* fitTransform, a name that nothing defines, throws a ReferenceError before
\* the home transform is touched
SimulationEnd ==
    /\ Mounted
    /\ scene.simulation /\ scene.running
    /\ scene.alphaTarget = 0
    /\ scene' = [scene EXCEPT !.running = FALSE]
    /\ last' = Op("simulationEnd")
    /\ UNCHANGED <<parseVars, clientWidth, loadVars, mode, citationType, activeFilters, data, winVars, hlVars>>

InitSim == InitCommunity(Ctx(JsonSocial, MockCitationPaper))

NextSim ==
    \/ \E i \in 1..MaxNodes : DragStart(i)
    \/ \E i \in 1..MaxNodes, delta \in DragDeltas : Drag(i, delta)
    \/ \E i \in 1..MaxNodes : DragEnd(i)
    \/ \E step \in [1..MaxNodes -> SimSteps] : Tick(step)
    \/ SimulationEnd

SpecSim == InitSim /\ [][NextSim]_vars

\* C21: under the simulation the node being dragged is pinned and the alpha
\* target is 0.3 from drag start to drag end; outside a drag no node is pinned
\* and the alpha target is 0; a drag event puts fx, fy at the pointer, and a
\* tick puts the pinned node at fx, fy and nowhere else.
C21_DraggedNodePinned ==
    /\ []((Mounted /\ scene.simulation) =>
            /\ scene.dragging # 0 =>
                  /\ Pinned(data.nodes[scene.dragging])
                  /\ data.nodes[scene.dragging].fy.t = "num"
                  /\ scene.alphaTarget = 3
                  /\ scene.running
            /\ \A i \in 1..Len(data.nodes) :
                  i # scene.dragging =>
                      (~Pinned(data.nodes[i]) /\ data.nodes[i].fy.t # "num")
            /\ scene.dragging = 0 => scene.alphaTarget = 0)
    /\ [][/\ (last'.op = "drag" /\ scene.simulation) =>
                /\ data'.nodes[last'.i].fx = Num(last'.x)
                /\ data'.nodes[last'.i].fy = Num(last'.y)
                /\ data'.nodes[last'.i].x = data.nodes[last'.i].x
                /\ data'.nodes[last'.i].y = data.nodes[last'.i].y
          /\ (last'.op = "tick" /\ scene.dragging # 0) =>
                /\ data'.nodes[scene.dragging].x = data.nodes[scene.dragging].fx
                /\ data'.nodes[scene.dragging].y = data.nodes[scene.dragging].fy
          /\ (last'.op = "dragEnd" /\ scene.simulation) =>
                /\ data'.nodes[last'.i].fx = NullV
                /\ data'.nodes[last'.i].fy = NullV]_vars

\* node A dragged, then moved to the pointer by a tick while node B went its
\* own way
C21_Witness ==
    /\ last.op = "tick"
    /\ scene.simulation /\ scene.dragging = 1
    /\ data.nodes[1].x = data.nodes[1].fx
    /\ data.nodes[1].x # Num(SpiralX(1))
    /\ data.nodes[2].x # Num(SpiralX(2))


\* ---------------------------------------------------------------------------
\* Claims about the drag of a window
\* ---------------------------------------------------------------------------

\* C22: at most one window has the dragging id; a mouse-down on a window makes
\* its id the dragging id and captures pointer minus position; a mouse-move
\* puts the window with the dragging id at pointer minus that offset and
\* changes no other window, and changes none when no id is being dragged; a
\* mouse-up (the handler of mouse-leave as well) clears the dragging id.
C22_WindowDragExclusive ==
    /\ [](\A j, k \in 1..Len(windows) :
             (windows[j].id = draggingId /\ windows[k].id = draggingId) => j = k)
    /\ [][/\ last'.op = "mouseDown" =>
                /\ draggingId' = windows[last'.i].id
                /\ dragOffset' = [x |-> last'.x - windows[last'.i].x,
                                  y |-> last'.y - windows[last'.i].y]
          /\ last'.op = "mouseMove" =>
                /\ UNCHANGED <<draggingId, dragOffset>>
                /\ Len(windows') = Len(windows)
                /\ \A k \in 1..Len(windows) :
                      IF draggingId # NoAttr /\ windows[k].id = draggingId
                      THEN windows'[k] = [windows[k] EXCEPT !.x = last'.x - dragOffset.x,
                                                            !.y = last'.y - dragOffset.y]
                      ELSE windows'[k] = windows[k]
          /\ last'.op = "mouseUp" => draggingId' = NoAttr /\ windows' = windows]_vars

\* the first of two windows grabbed at 100 and moved with the pointer to 130
C22_Witness ==
    /\ last.op = "mouseMove" /\ last.x = 130
    /\ Len(windows) = 2
    /\ draggingId = windows[1].id
    /\ dragOffset.x = 100 - 20
    /\ windows[1].x = 50
    /\ windows[2].x = 30


\* ---------------------------------------------------------------------------
\* Zoom, pan and home
\* ---------------------------------------------------------------------------

MaxGestures == 3
MinScale == 100
MaxScale == 8000

\* line 196: scaleExtent([0.1, 8]), enforced by scaleBy and by the gestures
ClampScale(k) == IF k < MinScale THEN MinScale ELSE IF k > MaxScale THEN MaxScale ELSE k

\* d * k1 / k0 on offsets in thousandths, carried out in tenths
Rescaled(d, k1, k0) == (((d \div 100) * k1) \div k0) * 100

\* ScaledBy without the scale extent
ScaledByUnclamped(t, factor, px, py) ==
    LET k1 == (t.k * factor) \div 10
    IN  [k |-> k1,
         x |-> px * 1000 - Rescaled(px * 1000 - t.x, k1, t.k),
         y |-> py * 1000 - Rescaled(py * 1000 - t.y, k1, t.k),
         nan |-> t.nan]

\* d3 zoom.scaleBy about the point (px, py), factor in tenths: the point keeps
\* its place
ScaledBy(t, factor, px, py) ==
    LET k1 == ClampScale((t.k * factor) \div 10)
    IN  [k |-> k1,
         x |-> px * 1000 - Rescaled(px * 1000 - t.x, k1, t.k),
         y |-> py * 1000 - Rescaled(py * 1000 - t.y, k1, t.k),
         nan |-> t.nan]

Gesture(t, name) ==
    /\ Mounted
    /\ scene.gestures < MaxGestures
    /\ scene' = [scene EXCEPT !.zoom = t, !.gestures = @ + 1]
    /\ last' = Op(name)
    /\ UNCHANGED <<parseVars, clientWidth, loadVars, mode, citationType, activeFilters, data,
                   winVars, hlVars>>

\* lines 508-511, 690, 693: the zoom buttons, about the centre of the view
HandleZoom(factor) ==
    /\ scene.zoom.k > 0
    /\ Gesture(ScaledBy(scene.zoom, factor, clientWidth \div 2, ContainerHeight \div 2), "handleZoom")

\* a turn of the wheel with the pointer at (px, py)
WheelZoom(factor, px, py) ==
    /\ scene.zoom.k > 0
    /\ Gesture(ScaledBy(scene.zoom, factor, px, py), "wheel")

\* a drag of the background
Pan(dx, dy) ==
    Gesture([scene.zoom EXCEPT !.x = @ + dx * 1000, !.y = @ + dy * 1000], "pan")

\* lines 512-525: the home button; without a stored transform the fallback
\* translate(w/2, h/2).scale(1).translate(-w/2, -h/2) is the identity
HandleResetZoom ==
    Gesture(IF scene.homeBy # "none" THEN scene.home ELSE Identity, "resetZoom")

\* a network file with coordinates far apart
JsonWide ==
    [nodes |-> <<GraphNode("A", "unknown", "author", Num(0), Num(0)),
                 GraphNode("B", "unknown", "author", Num(10000), Num(0))>>,
     links |-> <<Link(IdEnd("A"), IdEnd("B"))>>]

ZoomNets == {GexfLaidOut, JsonSocial, JsonWide}

InitZoom == \E s \in ZoomNets : InitCommunity(Ctx(s, MockCitationPaper))

NextZoom ==
    \/ \E factor \in {8, 12} : HandleZoom(factor)
    \/ \E factor \in {1, 80} : WheelZoom(factor, 0, 0)
    \/ Pan(50, 0)
    \/ HandleResetZoom
    \/ NodeClick(1, 0, 0)
    \/ MouseDown(1, 100, 100)
    \/ SetModeSocial
    \/ SetModeCitation
    \/ SimulationEnd

SpecZoom == InitZoom /\ [][NextZoom]_vars

\* C23: opening a window, re-opening one and the mouse-down on a window leave
\* the dataset and the scene as they are: nothing redrawn, the simulation
\* neither stopped nor restarted, the zoom transform kept.
C23_WindowsLeaveSceneAlone ==
    [][last'.op \in {"addWindow", "addWindowExisting", "mouseDown"} =>
          UNCHANGED <<data, scene>>]_vars


\* C24: whatever the dataset and whatever zoom, wheel, pan, framing and home
\* operations came before, the scale of the view lies within [0.1, 8].
C24_ScaleWithinExtent ==
    Mounted => scene.zoom.k \in MinScale..MaxScale

\* C25: the home button restores the transform the layout computed for the
\* dataset on display: the bounding-box fit under the imported layout, the
\* fit computed when the simulation came to rest under the simulation; it
\* never falls back to a transform nobody computed.
C25_HomeRestoresLayoutFit ==
    last.op = "resetZoom" =>
        /\ scene.homeBy # "none"
        /\ scene.zoom = scene.home
        /\ scene.hasGexfLayout => scene.home = FitBounds(data, clientWidth)
        /\ (scene.simulation /\ ~scene.running) => scene.homeBy = "end"


\* ---------------------------------------------------------------------------
\* Position harness: parseGexf on nodes with and without a readable position
\* ---------------------------------------------------------------------------

\* values of the x and y attributes of <viz:position>
PosAttrs == {NoAttr, "", "abc", "0", "10", "-7"}
PosEls == {NoPos} \cup {Pos(x, y) : x \in PosAttrs, y \in PosAttrs}
PosTexts ==
    {GexfText(<<[id |-> "A", label |-> NoAttr, pos |-> pa, color |-> NoColor, d3 |-> NoAttr],
                [id |-> "B", label |-> NoAttr, pos |-> pb, color |-> NoColor, d3 |-> NoAttr]>>, <<>>) :
        pa \in PosEls, pb \in {NoPos, Pos("10", "0")}}

InitPos ==
    /\ doc \in PosTexts
    /\ result = NotParsed
    /\ last = Op("init")
    /\ LoadAtRest /\ ViewAtRest /\ WinAtRest /\ ContainerAtRest /\ HlAtRest

SpecPos == InitPos /\ [][NextParse]_vars

Readable(a) == a # NoAttr /\ ParseFloat(a) # NaN

\* C26: a node without <viz:position>, or with a coordinate attribute that is
\* missing or not a number, gets 0 for that coordinate, and the parse of the
\* document succeeds.
C26_MalformedPositionIsOrigin ==
    last.op = "parseGexf" =>
        /\ result.ok
        /\ \A k \in 1..Len(doc.nodes) :
              /\ (~doc.nodes[k].pos.present \/ ~Readable(doc.nodes[k].pos.x)) =>
                    result.nodes[k].x = Num(0)
              /\ (~doc.nodes[k].pos.present \/ ~Readable(doc.nodes[k].pos.y)) =>
                    result.nodes[k].y = Num(0)


\* ---------------------------------------------------------------------------
\* Claims about the search highlight across a rebuild of the graph
\* ---------------------------------------------------------------------------

RebuildingOps == {"toggleDomain", "dataReload", "setModeSocial", "setModeCitation",
                  "setCitationType", "addWindow", "addWindowExisting"}

\* C27: with a search term active, after every operation that rebuilds the
\* graph (filter change, data reload, mode or sub-mode switch, window opened)
\* the nodes of the new graph that match the term are at full opacity and
\* the others are dimmed, without any further event.
C27_SearchSurvivesRebuild ==
    (Mounted /\ searchTerm # "" /\ last.op \in RebuildingOps) =>
        \A i \in 1..Len(data.nodes) :
            styles.nodes[i].opacity =
                IF \/ OccursIn(searchTerm, data.nodes[i].label)
                   \/ OccursIn(searchTerm, data.nodes[i].fullLabel)
                THEN 10 ELSE 1


\* ---------------------------------------------------------------------------
\* Citation networks read from GEXF, under the domain and subdomain filters
\* ---------------------------------------------------------------------------

\* three nodes named like the papers of the list, with their type attributes
CitedAttrs == {<<"paper", "paper", "paper">>, <<"cited", "source", NoAttr>>}
CiteText(ts) ==
    GexfText([k \in 1..3 |-> [id |-> PapersList[k].id, label |-> NoAttr, pos |-> NoPos,
                              color |-> NoColor, d3 |-> ts[k]]],
             <<[source |-> "P1", target |-> "P2", weight |-> NoAttr],
               [source |-> "P2", target |-> "P3", weight |-> NoAttr]>>)
GexfCitation(ts) == NetOf(ParseGexf(CiteText(ts), CitationOptions))

\* the view after the clicks on "Citation" and on "Papers": the D3 effect has
\* run at the mount and after each click
InitCitationPaper(c) ==
    /\ ParseAtRest
    /\ clientWidth = ClientWidth
    /\ ctx = c /\ load = RestLoad
    /\ mode = "CITATION" /\ citationType = "PAPER" /\ activeFilters = <<>>
    /\ LET r0 == RunEffect(ComputeData("SOCIAL", "AUTHOR", <<>>, c))
           r1 == RunEffect(ComputeData("CITATION", "AUTHOR", <<>>, c))
           r2 == RunEffect(ComputeData("CITATION", "PAPER", <<>>, c))
       IN  /\ data = r2.data
           /\ scene = Install(Install(Install(RestScene, r0.scene), r1.scene), r2.scene)
           /\ styles = ApplyHighlight(r2.data, "", NoAttr, NoLink, <<>>)
    /\ WinAtRest
    /\ searchTerm = "" /\ hoverNode = NoAttr /\ hoverLink = NoLink
    /\ last = OpAt("setCitationType", 0, 1, 0)

InitCite ==
    \E ts \in CitedAttrs :
        InitCitationPaper([RestCtx EXCEPT !.social = GexfLaidOut, !.paper = GexfCitation(ts),
                                          !.author = GexfCitation(ts)])

NextCite ==
    \/ SetCitationType("PAPER")
    \/ \E d \in 1..NumDomains : ToggleDomain(d)
    \/ \E d \in 1..NumDomains, a \in 1..NumSubAreas : ToggleSubdomain(d, a)
    \/ \E index \in 1..MaxFilters : RemoveFilterTag(index)

SpecCite == InitCite /\ [][NextCite]_vars

NodeIds(d) == [i \in 1..Len(d.nodes) |-> d.nodes[i].id]
EdgeIds(d) == [j \in 1..Len(d.links) |->
                  <<LinkEndId(d.links[j].source, d.nodes), LinkEndId(d.links[j].target, d.nodes)>>]

JsonPaperMoved ==
    [nodes |-> <<GraphNode("P1", "MAN", "paper", Num(0), Num(0)),
                 GraphNode("P2", "HLT", "paper", Num(10), Num(0)),
                 GraphNode("A", "Georgia Tech", "author", Num(0), Num(10))>>,
     links |-> <<Link(IdEnd("P1"), IdEnd("P2")), Link(IdEnd("A"), IdEnd("P1"))>>]

PaperFiles == {JsonPaperMoved, MockCitationPaper}

InitDisj == \E net \in PaperFiles : InitCitationPaper(Ctx(GexfLaidOut, net))

NextDisj ==
    \/ SetCitationType("PAPER")
    \/ \E d \in 1..NumDomains : ToggleDomain(d)
    \/ \E d \in 1..NumDomains, a \in 1..NumSubAreas : ToggleSubdomain(d, a)
    \/ \E index \in 1..MaxFilters : RemoveFilterTag(index)

SpecDisj == InitDisj /\ [][NextDisj]_vars

IdSet(d) == {d.nodes[i].id : i \in 1..Len(d.nodes)}

\* the node's group is the domain the paper list gives for its id
GroupsAgree(d) ==
    \A i \in 1..Len(d.nodes) : \A k \in 1..Len(PapersList) :
        (d.nodes[i].nodeType = "paper" /\ PapersList[k].id = d.nodes[i].id) =>
            d.nodes[i].group = PapersList[k].domainId

FilterAdded ==
    /\ last'.op \in {"toggleDomain", "toggleSubdomain"}
    /\ Len(activeFilters') = Len(activeFilters) + 1

MatchesSome(n, filters) == \E f \in 1..Len(filters) : MatchesFilter(n, filters[f])

\* the nodes on display are the authors and the papers that match at least
\* one of the filters
KeptDisjunctively(d, base, filters) ==
    IdSet(d) = {base.nodes[i].id : i \in {h \in 1..Len(base.nodes) :
                    base.nodes[h].nodeType # "paper" \/ MatchesSome(base.nodes[h], filters)}}

\* C29: a paper is displayed iff it matches at least one active filter and
\* authors always are; adding a filter never removes a node, and adding a
\* subdomain filter while its domain is active leaves the node set as it was.
C29_AddingFilterNeverRemoves ==
    [][FilterAdded =>
          /\ KeptDisjunctively(data', BaseNetwork(mode, citationType, ctx), activeFilters')
          /\ IdSet(data) \subseteq IdSet(data')
          /\ last'.op = "toggleSubdomain" => IdSet(data') = IdSet(data)]_vars

\* C29: as amended: adding a filter to a non-empty list never removes a node
\* while the first filter does; a subdomain filter added under its active
\* domain changes nothing when the groups of the nodes agree with the paper
\* list.
C29_AddingToActiveFiltersNeverRemoves ==
    [][FilterAdded =>
          /\ KeptDisjunctively(data', BaseNetwork(mode, citationType, ctx), activeFilters')
          /\ activeFilters # <<>> => IdSet(data) \subseteq IdSet(data')
          /\ activeFilters = <<>> => IdSet(data') \subseteq IdSet(data)
          /\ (last'.op = "toggleSubdomain"
                /\ GroupsAgree(BaseNetwork(mode, citationType, ctx))) =>
                IdSet(data') = IdSet(data)]_vars

C29_Witness ==
    /\ Mounted /\ mode = "CITATION" /\ citationType = "PAPER"
    /\ ctx.paper = JsonPaperMoved
    /\ last.op = "toggleSubdomain"
    /\ activeFilters = <<DomainFilter("MAN"), SubdomainFilter("Smart Factories", "MAN")>>
    /\ IdSet(data) = {"P1", "P2", "A"}


\* ---------------------------------------------------------------------------
\* Termination of loadFromPublic
\* ---------------------------------------------------------------------------

\* every fetch settles, so the step that awaits it is taken
SpecLoadFair == InitLoad /\ [][NextLoad]_vars /\ WF_vars(NextLoad)

LoadOver == load.pc = "done" /\ ~load.isDataLoading /\ load.loadingMessage = ""

\* C30: once loadFromPublic is called and its fetches settle, it comes to an
\* end with isDataLoading false and the loading message empty, whether the
\* fetches succeed, answer not-ok, are rejected, or a GEXF or JSON body cannot
\* be read.
C30_LoadAlwaysFinishes ==
    (load.pc # "idle") ~> LoadOver

C30_Witness ==
    /\ LoadOver
    /\ load.failed
    /\ load.seen.social = [gexf |-> "threw", json |-> "ok"]
    /\ load.seen.paper = [gexf |-> "notOk", json |-> "badJson"]

====
